---- MODULE Spec2Model ----
(***************************************************************************)
(* Model of the boltz-client swap daemon.                                  *)
(*                                                                         *)
(*   SpecCreate  : the CreateSwap / CreateReverseSwap RPC handlers of      *)
(*                 rpcserver/router.go, one action per handler.            *)
(*   SpecNursery : the nursery (block listener, per-swap event listeners,  *)
(*                 recovery) together with the RefundSwap RPC.             *)
(***************************************************************************)
EXTENDS Integers, Sequences, FiniteSets, TLC

VARIABLES
    \* ---- rpcserver: swap creation ----
    lightning,      \* server.lightning != nil (FALSE: standalone mode)
    swaps,          \* rows of table swaps, keyed by id (database.CreateSwap)
    reverseSwaps,   \* rows of table reverseSwaps (database.CreateReverseSwap)
    registered,     \* ids handed to nursery.RegisterSwap / RegisterReverseSwap
    funded,         \* ids for which wallet.SendToAddress succeeded
    paid,           \* ids for which nursery.PayReverseSwap was called
    nextId,         \* next id the exchange hands out
    call,           \* the creation RPC whose handler just finished:
                    \* [rpc, id, err, resp, preimage]
    \* ---- database, table swaps, as the nursery and RefundSwap see it ----
    dbStatus,             \* swaps.status
    lockupTransactionId,  \* TRUE: swaps.lockupTransactionId != ""
    refundTransactionId,  \* swaps.refundTransactionId (0: "")
    timeoutBlockHeight,   \* swaps.timeoutBlockHeight
    \* ---- lightning node ----
    invoiceSettled,       \* LookupInvoice reports the swap's invoice SETTLED
    \* ---- nursery ----
    eventListeners,       \* ids with an entry in the eventListeners map
    lPc,                  \* per swap: where its listener goroutine is
    lEvent,               \* per swap: the status update its listener read last
    recPc,                \* recoverSwaps: "run", "done", "failed"
    recQueue,             \* swaps recoverSwaps still has to visit
    recStatus,            \* per swap: the status SwapStatus returned to
                          \* recoverSwaps while it runs, "none" otherwise
    blPc,                 \* block listener goroutine
    newBlock,             \* newBlock.Height, the last block received
    swapsToRefund,        \* rest of the slice the block listener iterates
    \* ---- RefundSwap RPC ----
    rpcPc,                \* per call: "idle", "setAddress", "refund", "done"
    rpcSwap,              \* per call: request.Id (0: an id the database lacks)
    rpcAddress,           \* per call: request.Address (0: no call)
    rpcErr,               \* per call: the status code returned, or "none"
    refundAddress,        \* swaps.refundAddress (0: "")
    \* ---- observation (not program state) ----
    attempts,             \* per swap: calls of nursery.refundSwap
    attemptedAt,          \* per swap: block height of the last such call
    broadcasts,           \* per swap: refund transactions broadcast
    reported,             \* swaps the last QueryRefundableSwaps returned
    eligible,             \* swaps pending with a lockup when it was asked
    \* ---- BoltzWebsocket ----
    wsClosed,             \* boltz.closed
    wsConn,               \* boltz.conn: "nil", "open", "broken", "closed"
    wsPc,                 \* the goroutine Connect starts at 154
    wsInbox,              \* messages the exchange sent that are not read yet
    wsPending,            \* args of the swap.update push being delivered
    wsUpdatesClosed,      \* how often close(boltz.Updates) ran
    wsPanicked,           \* a method was called on the nil connection
    subPc,                \* Subscribe: "idle", "waiting", "returned"
    subElapsed,           \* seconds since Subscribe sent its request
    subArgs,              \* len(swapIds) of the Subscribe call
    subResult,            \* what Subscribe returned
    \* ---- observation of the websocket (not program state) ----
    wsReceived,           \* args of the swap.update pushes read, in order
    wsSent,               \* SwapUpdate values sent on boltz.Updates, in order
    wsPaused,             \* seconds slept since the last Connect of the loop
    wsPushed,             \* update args the exchange has pushed so far
    subRequest,           \* number of subscribe requests sent so far
    subSends,             \* requests sent by the current Subscribe call
    subDue,               \* requests the exchange has still to acknowledge
    wsAckFor,             \* the request the acknowledgement being handed over answers
    subAckFor,            \* the request whose acknowledgement Subscribe consumed
    \* ---- RegisterBlockListener (Electrum and mempool backends) ----
    rblBackend,           \* "electrum" or "mempool"
    rblPc,                \* the call: "subscribe", "wait", "send", "returned"
    rblErr,               \* what the call returned: "none", "nil", "error"
    rblStop,              \* the stop channel: "none", "given", "taken"
    rblConn,              \* the connection to the server: "up", "lost", "closed"
    rblPing,              \* mempool's ping goroutine: "off", "running",
                          \* "closing", "exited"
    rblClosed,            \* mempool's local variable closed
    rblLeaked,            \* a ping goroutine of an earlier call still runs
    rblReceiving,         \* the consumer of the BlockEpoch channel receives
    rblInbox,             \* headers / messages that arrived and are not read
    blockHeight,          \* the height of the epoch being sent (c.blockHeight)
    \* ---- observation of the block listener (not program state) ----
    rblTip,               \* height of the chain at the server
    rblArrived,           \* everything that arrived, in order
    rblForwarded,         \* heights the consumer received, in order
    rblRead,              \* messages the calls have read, in order
    rblCalls,             \* calls of RegisterBlockListener so far
    \* ---- findLockupVout ----
    addressToFind,        \* the lockup address looked for (0: no call)
    outputs,              \* the outputs of the transaction
    lockupVout,           \* what the call returned: [vout, err], err "none"
                          \* before it returned
    \* ---- rpcserver: lock ----
    locked,               \* server.locked
    uPc,                  \* per Unlock call: "idle", "decrypt", "login", "init",
                          \* "unlock", "done"
    uPassword,            \* per Unlock call: the password given is the right one
    uLogins,              \* per Unlock call: wallets it has logged in and added
    uInit,                \* per Unlock call: its nursery.Init succeeded
    uErr,                 \* per Unlock call: what unlock returned
    credentials,          \* the stored wallet credentials: for each, whether
                          \* it is encrypted
    walletsAdded,         \* per stored wallet: calls of onchain.AddWallet
    serverNursery,        \* server.nursery: 0 the one at startup, n the n-th
                          \* that unlock put there
    nurseryInits,         \* calls of nursery.Init that succeeded
    rpc,                  \* the last request the lock interceptor saw
    \* ---- observation of the lock (not program state) ----
    unlockCalls,          \* Unlock calls so far
    \* ---- macaroons: interceptors ----
    macRequest,           \* the last request the macaroon interceptor saw
    macResult,            \* what the interceptor did with it: [err, handled]
    \* ---- rpcserver: createReverseSwap waiting for the swap ----
    rsState,              \* state of the reverse swap in the nursery
    rsTracked,            \* the nursery still tracks the swap
    rsPublished,          \* updates the nursery has published for the swap
    wRequest,             \* [returnImmediately, acceptZeroConf, externalPay]
    wPc,                  \* the handler: "pay", "subscribe", "range", "returned"
    wChan,                \* updates of the handler: "none", "nil", "open",
                          \* "stopped"
    wQueue,               \* updates queued for the handler
    wClosed,              \* the nursery closed the handler's stream
    wResp,                \* [claimTransactionId, err]: the handler's answer
    \* ---- rpcserver: re-encrypting the wallet credentials ----
    dbCredentials,        \* the committed rows of wallet credentials: for each
                          \* the password it is encrypted with, 0: not encrypted
    txState,              \* the transaction of encryptWalletCredentials:
                          \* "none", "open", "committed", "rolledBack"
    txWrites,             \* the rows the open transaction has updated
    cwPc,                 \* the call: "idle", "begin", "loop", "returned"
    cwNew,                \* the password the call encrypts with
    cwIdx,                \* the credential the loop of 919-928 stands at
    cwLen,                \* the number of credentials the loop was given
    cwErr,                \* what the call returned
    cwCalls               \* calls so far

createVars == <<lightning, swaps, reverseSwaps, registered, funded, paid,
                nextId, call>>

dbVars == <<dbStatus, lockupTransactionId, refundTransactionId, timeoutBlockHeight>>
listenerVars == <<eventListeners, lPc, lEvent>>
recoverVars == <<recPc, recQueue, recStatus>>
blockVars == <<blPc, newBlock, swapsToRefund>>
rpcVars == <<rpcPc, rpcSwap, rpcAddress, rpcErr, refundAddress>>
ghostVars == <<attempts, attemptedAt, broadcasts, reported, eligible>>

nurseryVars == <<dbVars, invoiceSettled, listenerVars, recoverVars, blockVars,
                 rpcVars, ghostVars>>

wsVars == <<wsClosed, wsConn, wsPc, wsInbox, wsPending, wsUpdatesClosed,
            wsPanicked, wsReceived, wsSent, wsPaused, wsPushed, wsAckFor>>
subVars == <<subPc, subElapsed, subArgs, subResult, subRequest, subSends, subDue,
             subAckFor>>

\* the parts of the program outside the RPC server and the nursery
rblVars == <<rblBackend, rblPc, rblErr, rblStop, rblConn, rblPing, rblClosed,
             rblLeaked, rblReceiving, rblInbox, blockHeight, rblTip,
             rblArrived, rblForwarded, rblRead, rblCalls>>

voutVars == <<addressToFind, outputs, lockupVout>>

lockVars == <<locked, uPc, uPassword, uLogins, uInit, uErr, credentials,
              walletsAdded, serverNursery, nurseryInits, rpc, unlockCalls>>

\* the parts added after findLockupVout, and all parts but one of them
macVars == <<macRequest, macResult>>

waitVars == <<rsState, rsTracked, rsPublished, wRequest, wPc, wChan, wQueue,
              wClosed, wResp>>

credVars == <<dbCredentials, txState, txWrites, cwPc, cwNew, cwIdx, cwLen,
              cwErr, cwCalls>>

laterVars == <<lockVars, macVars, waitVars, credVars>>
otherVars == <<voutVars, laterVars>>
notLockVars == <<createVars, nurseryVars, wsVars, subVars, rblVars, voutVars,
                 macVars, waitVars, credVars>>
notMacVars == <<createVars, nurseryVars, wsVars, subVars, rblVars, voutVars,
                lockVars, waitVars, credVars>>
notWaitVars == <<createVars, nurseryVars, wsVars, subVars, rblVars, voutVars,
                 lockVars, macVars, credVars>>
notCredVars == <<createVars, nurseryVars, wsVars, subVars, rblVars, voutVars,
                 lockVars, macVars, waitVars>>

extraVars == <<wsVars, subVars, rblVars, otherVars>>

vars == <<createVars, nurseryVars, extraVars>>

----------------------------------------------------------------------------
(* Bounds *)

MaxSwaps == 1
MaxPreimage == 2
\* swaps the nursery tracks, block heights the chain reaches, RefundSwap calls
NumSwaps == 2
MaxHeight == 2
MaxRpc == 1
MaxAddress == 2
MaxUpdates == 3
MaxSubscribes == 2
MaxInbox == 2
\* block listener: chain height, messages arriving, calls by the caller
MaxTip == 2
MaxMessages == 3
MaxCalls == 2
\* findLockupVout: outputs of a transaction, addresses they may pay to
MaxOutputs == 3
MaxOutputAddress == 2
\* lock: concurrent Unlock calls, Unlock calls in all, stored wallets
MaxUnlocks == 2
MaxUnlockCalls == 3
MaxWallets == 2
\* macaroons: values under the metadata key, characters of a value
MaxMacaroons == 2
MaxHexLen == 2
\* createReverseSwap waiting: updates before the terminal one, queue length
MaxPublished == 2
MaxQueue == 2

Ids == 1..MaxSwaps
Preimages == 1..MaxPreimage

\* crypto/sha256 on the small preimage space: injective, never 0 (0 stands
\* for "no hash"), and not the identity.
Sha256(p) == p * p + 1

NoPreimage == 0
NoInvoice == 0
\* request.Address == "", no address
NoAddress == 0
\* A payment hash no local preimage hashes to.
ForeignHash == 1
Hashes == {Sha256(p) : p \in Preimages} \cup {ForeignHash}

----------------------------------------------------------------------------
(* Sequence helpers *)

\* steps strictly before index f: the steps that returned without error
DoneBefore(seq, f, x) == \E i \in 1..Len(seq) : i < f /\ seq[i] = x

\* steps up to and including index f: the steps that were called
CalledUpTo(seq, f, x) == \E i \in 1..Len(seq) : i <= f /\ seq[i] = x

----------------------------------------------------------------------------
(* createSwap, router.go 290-457 *)

SwapRequests ==
    [invoice : {NoInvoice} \cup Hashes, amount : {0, 1}, sendFromInternal : BOOLEAN]

\* Mutant: a request without an invoice is not refused in standalone mode.
SwapInvoiceStepAnyMode(req, hasLightning) ==
    IF req.invoice # NoInvoice THEN "zpay32.Decode"
    ELSE IF req.amount # 0 THEN "lightning.CreateInvoice"
    ELSE IF req.sendFromInternal THEN "cannotAutoSendAmountZero"
    ELSE "newPreimage"

\* router.go 313-343: where preimageHash comes from
SwapInvoiceStep(req, hasLightning) ==
    IF req.invoice # NoInvoice THEN "zpay32.Decode"
    ELSE IF ~hasLightning THEN "invoiceRequiredInStandalone"
    ELSE IF req.amount # 0 THEN "lightning.CreateInvoice"
    ELSE IF req.sendFromInternal THEN "cannotAutoSendAmountZero"
    ELSE "newPreimage"

\* The calls of createSwap that can return an error, in program order.
\* onchain.GetWallet (345) is listed only with SendFromInternal: otherwise
\* its error is dropped (346-350).
\* Mutant: the row is written before the tree and the address are checked.
createSwapCallsPersistFirst(req, hasLightning) ==
    <<"newKeys", "GetSubmarinePair", SwapInvoiceStep(req, hasLightning)>>
    \o (IF req.sendFromInternal THEN <<"GetWallet">> ELSE <<>>)
    \o <<"boltz.CreateSwap", "ParsePubKey", "InitTree", "database.CreateSwap",
         "SwapTree.Check", "SwapTree.CheckAddress", "GetBlockHeight">>
    \o (IF req.sendFromInternal THEN <<"EstimateFee", "SendToAddress">> ELSE <<>>)
    \o <<"RegisterSwap">>

\* Mutant: the wallet pays the lockup address before the row is written.
createSwapCallsFundFirst(req, hasLightning) ==
    <<"newKeys", "GetSubmarinePair", SwapInvoiceStep(req, hasLightning)>>
    \o (IF req.sendFromInternal THEN <<"GetWallet">> ELSE <<>>)
    \o <<"boltz.CreateSwap", "ParsePubKey", "InitTree", "SwapTree.Check",
         "SwapTree.CheckAddress", "GetBlockHeight">>
    \o (IF req.sendFromInternal THEN <<"EstimateFee", "SendToAddress">> ELSE <<>>)
    \o <<"database.CreateSwap", "RegisterSwap">>

createSwapCalls(req, hasLightning) ==
    <<"newKeys", "GetSubmarinePair", SwapInvoiceStep(req, hasLightning)>>
    \o (IF req.sendFromInternal THEN <<"GetWallet">> ELSE <<>>)
    \o <<"boltz.CreateSwap", "ParsePubKey", "InitTree", "SwapTree.Check",
         "SwapTree.CheckAddress", "database.CreateSwap", "GetBlockHeight">>
    \o (IF req.sendFromInternal THEN <<"EstimateFee", "SendToAddress">> ELSE <<>>)
    \o <<"RegisterSwap">>

createSwapTable ==
    [req \in SwapRequests, hasLightning \in BOOLEAN |-> createSwapCalls(req, hasLightning)]

createSwapSteps(req) == createSwapTable[req, lightning]

\* errors.New(...) branches: the step is an unconditional return of an error
AlwaysFails == {"invoiceRequiredInStandalone", "cannotAutoSendAmountZero",
                "externalPayRequiredInStandalone", "cannotWaitWithExternalPay"}

\* Mutant: the row keeps the request's invoice, not the one created at 325.
SwapRowRequestInvoice(req, p, created) ==
    [preimage |-> IF SwapInvoiceStep(req, lightning) = "newPreimage" THEN p ELSE NoPreimage,
     invoice  |-> req.invoice,
     state    |-> "PENDING"]

\* router.go 358-375: the row that createSwap builds
SwapRow(req, p, created) ==
    [preimage |-> IF SwapInvoiceStep(req, lightning) = "newPreimage" THEN p ELSE NoPreimage,
     invoice  |-> IF req.invoice # NoInvoice THEN req.invoice
                  ELSE IF SwapInvoiceStep(req, lightning) = "lightning.CreateInvoice" THEN created
                  ELSE NoInvoice,
     state    |-> "PENDING"]

\* The answer of the exchange to a creation request: whether the swap tree
\* it sent passes SwapTree.Check, whether its address passes
\* SwapTree.CheckAddress, and the payment hash of the invoice it returned
\* (reverse swaps; NoInvoice: the invoice does not decode).
Responses == [treeValid : BOOLEAN, addrValid : BOOLEAN, invoiceHash : {NoInvoice} \cup Hashes]

\* what call.resp holds when the handler returned before the exchange answered
NoResponse == [treeValid |-> FALSE, addrValid |-> FALSE, invoiceHash |-> NoInvoice]

\* the answers the exchange can give to a handler that fails at step f
Answers(steps, f, request, invoices) ==
    IF DoneBefore(steps, f, request)
    THEN [treeValid : BOOLEAN, addrValid : BOOLEAN, invoiceHash : invoices]
    ELSE {NoResponse}

\* crypto/rand: the preimage newPreimage draws, once it has been called
RandomPreimages(steps, f) ==
    IF DoneBefore(steps, f, "newPreimage") THEN Preimages ELSE {NoPreimage}

\* Mutant: the payment hash of the returned invoice is not compared.
InvoiceHashUnchecked(preimageHash, paymentHash) == TRUE

\* router.go 601
InvoiceHashMatches(preimageHash, paymentHash) == preimageHash = paymentHash

\* Whether step s returns an error for this answer (the data decides),
\* or may return one (the environment decides).
MustFail(s, resp, p) ==
    \/ s \in AlwaysFails
    \/ s = "SwapTree.Check" /\ ~resp.treeValid
    \/ s = "SwapTree.CheckAddress" /\ ~resp.addrValid
    \/ s = "zpay32.Decode(response)" /\ resp.invoiceHash = NoInvoice
    \/ s = "invoiceHashCheck" /\ ~InvoiceHashMatches(Sha256(p), resp.invoiceHash)

NeverFails(s, resp, p) ==
    \/ s = "SwapTree.Check" /\ resp.treeValid
    \/ s = "SwapTree.CheckAddress" /\ resp.addrValid
    \/ s = "zpay32.Decode(response)" /\ resp.invoiceHash # NoInvoice
    \/ s = "invoiceHashCheck" /\ InvoiceHashMatches(Sha256(p), resp.invoiceHash)

\* f is the index of the step that returns the error, Len(steps)+1 if none
Outcome(steps, f, resp, p) ==
    /\ f \in 1..(Len(steps) + 1)
    /\ \A i \in 1..Len(steps) : i < f => ~MustFail(steps[i], resp, p)
    /\ f <= Len(steps) => ~NeverFails(steps[f], resp, p)

ErrOf(steps, f) == IF f <= Len(steps) THEN steps[f] ELSE "none"

\* the calls the handler made: all up to the failing one, which it made too
CallsMade(steps, f) == [i \in 1..(IF f <= Len(steps) THEN f ELSE Len(steps)) |-> steps[i]]

createSwap(req, p, created, resp, f) ==
    LET steps == createSwapSteps(req)
        id == nextId
        answered == DoneBefore(steps, f, "boltz.CreateSwap")
    IN  /\ Outcome(steps, f, resp, p)
        /\ nextId' = IF answered THEN nextId + 1 ELSE nextId
        /\ swaps' = IF DoneBefore(steps, f, "database.CreateSwap")
                    THEN swaps @@ (id :> SwapRow(req, p, created)) ELSE swaps
        /\ funded' = IF DoneBefore(steps, f, "SendToAddress")
                     THEN funded \cup {id} ELSE funded
        /\ registered' = IF DoneBefore(steps, f, "RegisterSwap")
                         THEN registered \cup {id} ELSE registered
        /\ call' = [rpc |-> "CreateSwap", id |-> IF answered THEN id ELSE 0,
                    err |-> ErrOf(steps, f), resp |-> resp, preimage |-> p,
                    req |-> req, calls |-> CallsMade(steps, f),
                    invoice |-> NoInvoice]
        /\ UNCHANGED <<lightning, reverseSwaps, paid, nurseryVars, extraVars>>

NoRequest == "none"

NoCall == [rpc |-> "none", id |-> 0, err |-> "none", resp |-> NoResponse,
           preimage |-> NoPreimage, req |-> NoRequest, calls |-> <<>>,
           invoice |-> NoInvoice]

\* Idle: no handler is running and the exchange still has an id to hand out.
Idle == call.rpc = "none" /\ nextId <= MaxSwaps

CreateSwap ==
    /\ Idle
    /\ \E req \in SwapRequests :
        \E f \in 1..(Len(createSwapSteps(req)) + 1) :
            \E p \in RandomPreimages(createSwapSteps(req), f),
               created \in (IF DoneBefore(createSwapSteps(req), f, "lightning.CreateInvoice")
                            THEN Hashes ELSE {NoInvoice}),
               resp \in Answers(createSwapSteps(req), f, "boltz.CreateSwap", {NoInvoice}) :
                createSwap(req, p, created, resp, f)

----------------------------------------------------------------------------
(* createReverseSwap, router.go 463-653 *)

Optional == {"unset", "true", "false"}

ReverseRequests ==
    [externalPay : Optional, returnImmediately : Optional, address : BOOLEAN,
     acceptZeroConf : BOOLEAN, chanIds : BOOLEAN]

\* Mutant: standalone mode does not imply externalPay.
externalPayAsRequested(req, hasLightning) == req.externalPay = "true"

\* router.go 466-473
externalPayOf(req, hasLightning) ==
    IF ~hasLightning /\ req.externalPay = "unset" THEN TRUE ELSE req.externalPay = "true"

ExternalPay(req) == externalPayOf(req, lightning)

\* router.go 475-483
returnImmediatelyOf(req, hasLightning) ==
    IF externalPayOf(req, hasLightning) THEN TRUE ELSE req.returnImmediately = "true"

createReverseSwapCalls(req, hasLightning) ==
    (IF ~hasLightning /\ req.externalPay = "false"
        THEN <<"externalPayRequiredInStandalone">> ELSE <<>>)
    \o (IF externalPayOf(req, hasLightning) /\ req.returnImmediately = "false"
        THEN <<"cannotWaitWithExternalPay">> ELSE <<>>)
    \o (IF req.address THEN <<"ValidateAddress">> ELSE <<"GetWallet", "NewAddress">>)
    \o <<"newPreimage", "newKeys", "GetReversePair", "boltz.CreateReverseSwap",
         "ParsePubKey">>
    \o (IF req.chanIds THEN <<"NewChanIdFromString">> ELSE <<>>)
    \o <<"InitTree", "SwapTree.Check", "SwapTree.CheckAddress",
         "zpay32.Decode(response)", "invoiceHashCheck",
         "database.CreateReverseSwap", "RegisterReverseSwap">>
    \o (IF externalPayOf(req, hasLightning) THEN <<>> ELSE <<"PayReverseSwap">>)
    \o (IF ~returnImmediatelyOf(req, hasLightning) /\ req.acceptZeroConf
        THEN <<"awaitUpdates">> ELSE <<>>)

createReverseSwapTable ==
    [req \in ReverseRequests, hasLightning \in BOOLEAN |->
        createReverseSwapCalls(req, hasLightning)]

createReverseSwapSteps(req) == createReverseSwapTable[req, lightning]

\* router.go 545-563
ReverseSwapRow(req, p, resp) ==
    [preimage |-> p, invoice |-> resp.invoiceHash, state |-> "PENDING",
     error |-> "", externalPay |-> ExternalPay(req)]

\* router.go 628: database.UpdateReverseSwapState(&reverseSwap, state, error)
UpdateReverseSwapState(row, state, error) ==
    [row EXCEPT !.state = state, !.error = error]

\* router.go 619-625, 652: rpcResponse.Invoice of the response returned
ResponseInvoice(req, hasLightning, row, returned) ==
    IF returned /\ externalPayOf(req, hasLightning) THEN row.invoice ELSE NoInvoice

\* dbErr: UpdateReverseSwapState fails after PayReverseSwap failed (628-630)
createReverseSwap(req, p, resp, f, dbErr) ==
    LET steps == createReverseSwapSteps(req)
        id == nextId
        answered == DoneBefore(steps, f, "boltz.CreateReverseSwap")
        payFailed == f <= Len(steps) /\ steps[f] = "PayReverseSwap"
        row == ReverseSwapRow(req, p, resp)
    IN  /\ Outcome(steps, f, resp, p)
        /\ dbErr => payFailed
        /\ nextId' = IF answered THEN nextId + 1 ELSE nextId
        /\ reverseSwaps' =
             IF DoneBefore(steps, f, "database.CreateReverseSwap")
             THEN reverseSwaps @@
                  (id :> IF payFailed /\ ~dbErr
                         THEN UpdateReverseSwapState(row, "ERROR", "PayReverseSwap")
                         ELSE row)
             ELSE reverseSwaps
        /\ registered' = IF DoneBefore(steps, f, "RegisterReverseSwap")
                         THEN registered \cup {id} ELSE registered
        /\ paid' = IF CalledUpTo(steps, f, "PayReverseSwap")
                   THEN paid \cup {id} ELSE paid
        /\ call' = [rpc |-> "CreateReverseSwap", id |-> IF answered THEN id ELSE 0,
                    err |-> IF dbErr THEN "UpdateReverseSwapState" ELSE ErrOf(steps, f),
                    resp |-> resp, preimage |-> p,
                    req |-> req, calls |-> CallsMade(steps, f),
                    invoice |-> ResponseInvoice(req, lightning, row, f > Len(steps))]
        /\ UNCHANGED <<lightning, swaps, funded, nurseryVars, extraVars>>

CreateReverseSwap ==
    /\ Idle
    /\ \E req \in ReverseRequests :
        \E f \in 1..(Len(createReverseSwapSteps(req)) + 1) :
            \E p \in RandomPreimages(createReverseSwapSteps(req), f),
               resp \in Answers(createReverseSwapSteps(req), f, "boltz.CreateReverseSwap",
                                {NoInvoice} \cup Hashes),
               dbErr \in (IF ErrOf(createReverseSwapSteps(req), f) = "PayReverseSwap"
                          THEN BOOLEAN ELSE {FALSE}) :
                createReverseSwap(req, p, resp, f, dbErr)

----------------------------------------------------------------------------

SwapIds == 1..NumSwaps
\* ids of reverse swaps: rows of table reverseSwaps, which
\* database.QuerySwap (router.go 201) and QueryRefundableSwaps do not read
ReverseSwapIds == (NumSwaps + 1)..(NumSwaps + MaxSwaps)
RpcCalls == 1..MaxRpc

\* the nursery before recoverSwaps ran, with no swap in the database
NurseryOff ==
    /\ dbStatus = <<>>
    /\ lockupTransactionId = <<>>
    /\ refundTransactionId = <<>>
    /\ timeoutBlockHeight = <<>>
    /\ invoiceSettled = <<>>
    /\ eventListeners = {}
    /\ lPc = <<>>
    /\ lEvent = <<>>
    /\ recPc = "done"
    /\ recQueue = <<>>
    /\ recStatus = [s \in SwapIds |-> "none"]
    /\ blPc = "off"
    /\ newBlock = 0
    /\ swapsToRefund = <<>>
    /\ rpcPc = <<>>
    /\ rpcSwap = <<>>
    /\ rpcAddress = <<>>
    /\ rpcErr = <<>>
    /\ refundAddress = <<>>
    /\ attempts = <<>>
    /\ attemptedAt = <<>>
    /\ broadcasts = <<>>
    /\ reported = {}
    /\ eligible = {}

\* the websocket as NewBoltzWebsocket returns it (112-120), nothing else done
WsOff ==
    /\ wsClosed = FALSE
    /\ wsConn = "nil"
    /\ wsPc = "none"
    /\ wsInbox = <<>>
    /\ wsPending = <<>>
    /\ wsUpdatesClosed = 0
    /\ wsPanicked = FALSE
    /\ wsReceived = <<>>
    /\ wsSent = <<>>
    /\ wsPaused = 0
    /\ wsPushed = 0
    /\ wsAckFor = 0
    /\ subPc = "idle"
    /\ subElapsed = 0
    /\ subArgs = 0
    /\ subResult = "none"
    /\ subRequest = 0
    /\ subSends = 0
    /\ subDue = {}
    /\ subAckFor = 0

\* no block listener registered
RblOff ==
    /\ rblBackend = "electrum"
    /\ rblPc = "returned"
    /\ rblErr = "none"
    /\ rblStop = "none"
    /\ rblConn = "closed"
    /\ rblPing = "off"
    /\ rblClosed = FALSE
    /\ rblLeaked = FALSE
    /\ rblReceiving = FALSE
    /\ rblInbox = <<>>
    /\ blockHeight = 0
    /\ rblTip = 0
    /\ rblArrived = <<>>
    /\ rblForwarded = <<>>
    /\ rblRead = <<>>
    /\ rblCalls = 0

\* findLockupVout is not being called
VoutOff ==
    /\ addressToFind = NoAddress
    /\ outputs = <<>>
    /\ lockupVout = [vout |-> 0, err |-> "none"]

\* the server as it starts when wallet credentials are encrypted: locked,
\* no wallet logged in, no Unlock call yet
UnlockCalls == 1..MaxUnlocks
Wallets == 1..MaxWallets
NoRpc == [method |-> <<>>, stream |-> FALSE, locked |-> FALSE, err |-> "none",
          handled |-> FALSE]

LockOff ==
    /\ locked = TRUE
    /\ uPc = [u \in UnlockCalls |-> "idle"]
    /\ uPassword = [u \in UnlockCalls |-> FALSE]
    /\ uLogins = [u \in UnlockCalls |-> 0]
    /\ uInit = [u \in UnlockCalls |-> FALSE]
    /\ uErr = [u \in UnlockCalls |-> "none"]
    /\ credentials = <<>>
    /\ walletsAdded = [w \in Wallets |-> 0]
    /\ serverNursery = 0
    /\ nurseryInits = 0
    /\ rpc = NoRpc
    /\ unlockCalls = 0

\* no request has reached the macaroon interceptor
NoMacRequest == [method |-> <<>>, stream |-> FALSE, metadata |-> FALSE,
                 macaroon |-> <<>>, valid |-> FALSE]

MacOff ==
    /\ macRequest = NoMacRequest
    /\ macResult = [err |-> "none", handled |-> FALSE]

\* no createReverseSwap has come as far as PayReverseSwap
NoWaitRequest == [returnImmediately |-> FALSE, acceptZeroConf |-> FALSE,
                  externalPay |-> FALSE]
NoWaitResp == [claimTransactionId |-> FALSE, err |-> "none"]

WaitOff ==
    /\ rsState = "PENDING"
    /\ rsTracked = FALSE
    /\ rsPublished = 0
    /\ wRequest = NoWaitRequest
    /\ wPc = "returned"
    /\ wChan = "none"
    /\ wQueue = <<>>
    /\ wClosed = FALSE
    /\ wResp = NoWaitResp

\* no call has touched the wallet credentials
CredOff ==
    /\ dbCredentials = <<>>
    /\ txState = "none"
    /\ txWrites = <<>>
    /\ cwPc = "idle"
    /\ cwNew = 0
    /\ cwIdx = 0
    /\ cwLen = 0
    /\ cwErr = "none"
    /\ cwCalls = 0

LaterOff == LockOff /\ MacOff /\ WaitOff /\ CredOff
OtherOff == VoutOff /\ LaterOff

ExtraOff == WsOff /\ RblOff /\ OtherOff

\* the RPC server before any creation request
CreateOff ==
    /\ swaps = <<>>
    /\ reverseSwaps = <<>>
    /\ registered = {}
    /\ funded = {}
    /\ paid = {}
    /\ nextId = 1
    /\ call = NoCall

InitCreate ==
    /\ NurseryOff
    /\ ExtraOff
    /\ lightning \in BOOLEAN
    /\ swaps = <<>>
    /\ reverseSwaps = <<>>
    /\ registered = {}
    /\ funded = {}
    /\ paid = {}
    /\ nextId = 1
    /\ call = NoCall

\* The response (or error) of the finished handler goes back to the caller;
\* the server takes the next request.
Respond ==
    /\ call.rpc # "none"
    /\ call' = NoCall
    /\ UNCHANGED <<lightning, swaps, reverseSwaps, registered, funded, paid, nextId,
                   nurseryVars, extraVars>>

NextCreate == CreateSwap \/ CreateReverseSwap \/ Respond

SpecCreate == InitCreate /\ [][NextCreate]_vars

----------------------------------------------------------------------------
(* Claims about swap creation (SpecCreate) *)

Persisted(id) == id \in DOMAIN swaps \/ id \in DOMAIN reverseSwaps

Failed == call.rpc # "none" /\ call.err # "none"

\* C1: swap creation is all-or-nothing: whenever CreateSwap or
\* CreateReverseSwap returns an error, no row was persisted for that request
\* and nothing was registered with the nursery.
C1_AllOrNothing ==
    Failed /\ call.id # 0 => ~Persisted(call.id) /\ call.id \notin registered

\* C2: a swap is persisted, registered, funded from the internal wallet or
\* paid over Lightning only if SwapTree.Check and SwapTree.CheckAddress both
\* accepted the exchange's answer; if either rejects it, the RPC returns an
\* error and none of the four happened.
C2_ChecksBeforeEffects ==
    call.id # 0 /\ ~(call.resp.treeValid /\ call.resp.addrValid) =>
        /\ call.err # "none"
        /\ ~Persisted(call.id)
        /\ call.id \notin registered
        /\ call.id \notin funded
        /\ call.id \notin paid

C2_Witness ==
    /\ call.id # 0
    /\ call.resp.treeValid /\ ~call.resp.addrValid
    /\ call.err = "SwapTree.CheckAddress"

GeneratedPreimage(row) == row.preimage # NoPreimage
CarriesInvoice(row) == row.invoice # NoInvoice

\* C3 as stated: for every swap persisted at creation, submarine or reverse,
\* exactly one of "the client generated the preimage" and "the swap carries
\* an invoice" holds.
C3_PreimageXorInvoice ==
    /\ \A id \in DOMAIN swaps :
          GeneratedPreimage(swaps[id]) # CarriesInvoice(swaps[id])
    /\ \A id \in DOMAIN reverseSwaps :
          GeneratedPreimage(reverseSwaps[id]) # CarriesInvoice(reverseSwaps[id])

\* C3 amended: a persisted submarine swap has exactly one of the two; a
\* persisted reverse swap has both, the locally generated preimage and the
\* invoice the exchange returned.
C3_SubmarineXorReverseBoth ==
    /\ \A id \in DOMAIN swaps :
          GeneratedPreimage(swaps[id]) # CarriesInvoice(swaps[id])
    /\ \A id \in DOMAIN reverseSwaps :
          GeneratedPreimage(reverseSwaps[id]) /\ CarriesInvoice(reverseSwaps[id])

C3_Witness ==
    \E id \in DOMAIN reverseSwaps :
        /\ id \in paid
        /\ GeneratedPreimage(reverseSwaps[id]) /\ CarriesInvoice(reverseSwaps[id])

\* C4: a reverse swap is persisted and paid only if the payment hash of the
\* invoice the exchange returned is sha256 of the locally generated
\* preimage; on a mismatch the RPC fails and the swap is neither persisted
\* nor registered nor paid.
C4_InvoiceHashChecked ==
    /\ \A id \in DOMAIN reverseSwaps :
          reverseSwaps[id].invoice = Sha256(reverseSwaps[id].preimage)
    /\ (/\ call.rpc = "CreateReverseSwap"
        /\ call.id # 0
        /\ call.resp.invoiceHash # Sha256(call.preimage))
       => /\ call.err # "none"
          /\ ~Persisted(call.id)
          /\ call.id \notin registered
          /\ call.id \notin paid

C4_Witness ==
    /\ call.rpc = "CreateReverseSwap"
    /\ call.err = "invoiceHashCheck"
    /\ call.resp.invoiceHash \in Hashes \ {ForeignHash}

\* how often the handler made the call x, and where (0: never)
Times(seq, x) == Cardinality({i \in 1..Len(seq) : seq[i] = x})
Position(seq, x) ==
    IF Times(seq, x) = 0 THEN 0
    ELSE CHOOSE i \in 1..Len(seq) : seq[i] = x /\ \A j \in 1..(i - 1) : seq[j] # x

\* C17: a reverse swap created with externalPay (set in the request, or left
\* unset in standalone mode) is never paid by the daemon and its invoice is
\* returned to the caller; one created without externalPay is paid by exactly
\* one call of PayReverseSwap, made after the row was persisted and the swap
\* registered, and its invoice is not returned. Standalone mode with
\* externalPay = false, and externalPay with returnImmediately = false, are
\* rejected by the first thing the handler does, before any call of the
\* exchange.
C17_ExternalPayNeverPaid ==
    call.rpc = "CreateReverseSwap" =>
        LET external == \/ call.req.externalPay = "true"
                        \/ call.req.externalPay = "unset" /\ ~lightning
            created == Times(call.calls, "RegisterReverseSwap") = 1 /\
                       call.err # "RegisterReverseSwap"
            rejected == \/ ~lightning /\ call.req.externalPay = "false"
                        \/ external /\ call.req.returnImmediately = "false"
        IN  /\ external =>
                /\ Times(call.calls, "PayReverseSwap") = 0
                /\ \A id \in DOMAIN reverseSwaps :
                      reverseSwaps[id].externalPay => id \notin paid
                /\ call.err = "none" =>
                      call.invoice # NoInvoice /\ call.invoice = call.resp.invoiceHash
            /\ ~external =>
                /\ call.invoice = NoInvoice
                /\ created <=> Times(call.calls, "PayReverseSwap") = 1
                /\ Times(call.calls, "PayReverseSwap") <= 1
                /\ created =>
                      /\ 0 < Position(call.calls, "database.CreateReverseSwap")
                      /\ Position(call.calls, "database.CreateReverseSwap")
                            < Position(call.calls, "RegisterReverseSwap")
                      /\ Position(call.calls, "RegisterReverseSwap")
                            < Position(call.calls, "PayReverseSwap")
                      /\ call.id \in paid
            /\ rejected =>
                /\ Len(call.calls) = 1
                /\ call.err \in {"externalPayRequiredInStandalone",
                                 "cannotWaitWithExternalPay"}
                /\ call.id = 0
                /\ Times(call.calls, "boltz.CreateReverseSwap") = 0
                /\ Times(call.calls, "GetReversePair") = 0

\* standalone mode, externalPay left unset: the swap was created, its invoice
\* came back and nothing was paid
C17_Witness ==
    /\ call.rpc = "CreateReverseSwap"
    /\ ~lightning
    /\ call.req.externalPay = "unset"
    /\ call.err = "none"
    /\ call.invoice # NoInvoice
    /\ call.id \in registered
    /\ call.id \notin paid

\* the handler made the call x only after its call y had returned without
\* an error
OnlyAfter(x, y) ==
    Times(call.calls, x) > 0 =>
        /\ 0 < Position(call.calls, y)
        /\ Position(call.calls, y) < Position(call.calls, x)
        /\ call.err # y

\* C21: the creating RPC calls RegisterSwap / RegisterReverseSwap only after
\* the row was written without an error, and with SendFromInternal the
\* wallet sends to the lockup address only after it; so every registered
\* swap and every funded swap has its row.
C21_PersistedBeforeRegistered ==
    /\ \A id \in registered : Persisted(id)
    /\ \A id \in funded : id \in DOMAIN swaps
    /\ call.rpc = "CreateSwap" =>
          /\ OnlyAfter("RegisterSwap", "database.CreateSwap")
          /\ OnlyAfter("SendToAddress", "database.CreateSwap")
          /\ Times(call.calls, "SendToAddress") > 0 => call.req.sendFromInternal
    /\ call.rpc = "CreateReverseSwap" =>
          OnlyAfter("RegisterReverseSwap", "database.CreateReverseSwap")

\* a submarine swap paid from the internal wallet: written, funded, registered
C21_Witness ==
    /\ call.rpc = "CreateSwap"
    /\ call.req.sendFromInternal
    /\ call.err = "none"
    /\ call.id \in funded
    /\ call.id \in registered
    /\ call.id \in DOMAIN swaps

\* the handler's call of PayReverseSwap returned an error
PayFailed ==
    /\ call.rpc = "CreateReverseSwap"
    /\ call.err # "none"
    /\ Len(call.calls) > 0
    /\ call.calls[Len(call.calls)] = "PayReverseSwap"

\* C22: when PayReverseSwap returns an error, the row of the swap is kept
\* with state ERROR and the error of the payment, the RPC returns that
\* error, and the swap is no longer tracked.
C22_FailedPaymentIsFatal ==
    PayFailed =>
        /\ call.id \in DOMAIN reverseSwaps
        /\ reverseSwaps[call.id].state = "ERROR"
        /\ reverseSwaps[call.id].error = "PayReverseSwap"
        /\ call.err = "PayReverseSwap"
        /\ call.id \notin registered

\* the three refusals of createSwap before the exchange is asked
Refusals == {"invoiceRequiredInStandalone", "cannotAutoSendAmountZero", "GetWallet"}

\* the handler's calls before the invoice step; a request they fail is not
\* looked at further
BeforeInvoice == {"newKeys", "GetSubmarinePair"}

\* C27: createSwap refuses a request without an invoice in standalone mode,
\* a request with amount 0, no invoice and SendFromInternal, and a request
\* with SendFromInternal whose wallet onchain.GetWallet does not find; a
\* refused request never reaches the exchange's CreateSwap, gets no id, and
\* leaves the swaps, the funded and the registered swaps as they were.
C27_RefusedBeforeExchange ==
    [][(call' # call /\ call'.rpc = "CreateSwap") =>
          /\ (call'.req.invoice = NoInvoice /\ ~lightning) =>
                call'.err \in BeforeInvoice \cup {"invoiceRequiredInStandalone"}
          /\ (call'.req.invoice = NoInvoice /\ call'.req.amount = 0
                 /\ call'.req.sendFromInternal) =>
                call'.err \in BeforeInvoice \cup {"invoiceRequiredInStandalone",
                                                 "cannotAutoSendAmountZero"}
          /\ Times(call'.calls, "GetWallet") > 0 <=>
                (call'.req.sendFromInternal /\ call'.err \notin BeforeInvoice
                   /\ call'.err # SwapInvoiceStep(call'.req, lightning))
          /\ call'.err \in Refusals =>
                /\ Times(call'.calls, "boltz.CreateSwap") = 0
                /\ Times(call'.calls, "database.CreateSwap") = 0
                /\ call'.id = 0
                /\ UNCHANGED <<swaps, reverseSwaps, registered, funded, paid, nextId>>]_vars

\* with a Lightning node, a request with an amount to be paid from a wallet
\* that is not found: the invoice was created, the exchange was not asked
C27_Witness ==
    /\ call.rpc = "CreateSwap"
    /\ lightning
    /\ call.req.sendFromInternal /\ call.req.amount # 0
    /\ call.err = "GetWallet"
    /\ Times(call.calls, "lightning.CreateInvoice") = 1
    /\ Times(call.calls, "boltz.CreateSwap") = 0
    /\ swaps = <<>>

----------------------------------------------------------------------------
(* The nursery: recoverSwaps, RegisterSwap, handleSwapStatus,               *)
(* startBlockListener, refundSwap.                                          *)

\* boltz.SwapUpdateEvent values the model distinguishes
Pending == {"swap.created", "transaction.mempool"}
CompletedStatus == {"transaction.claimed", "swap.refunded"}
Statuses == Pending \cup CompletedStatus

\* status updates the exchange streams for a swap
Events == {"transaction.mempool", "transaction.claimed"}

\* what handleSwapStatus sees at 264-281: zpay32.Decode fails, LookupInvoice
\* fails, or LookupInvoice answers with the state of the invoice
Lookups == {"decodeError", "lookupError", "state"}

\* 262-284: the transaction.claimed case returns before the update unless
\* the invoice is SETTLED; every other status goes on to the update
Updates(s, status, lookup) ==
    status = "transaction.claimed" => (lookup = "state" /\ invoiceSettled[s])

\* 286: database.UpdateSwapStatus(swap, parsedStatus)
UpdateSwapStatus(s, status) == [dbStatus EXCEPT ![s] = status]

\* Mutant: transaction.claimed is persisted without looking at the invoice.
handleSwapStatusTrusting(s, status, lookup) ==
    /\ dbStatus' = UpdateSwapStatus(s, status)
    /\ UNCHANGED <<attempts, attemptedAt, broadcasts>>

\* Mutant: a claimed swap whose invoice is not settled is refunded at once
\* instead of at its timeout block.
handleSwapStatusRefunding(s, status, lookup) ==
    /\ dbStatus' = IF Updates(s, status, lookup) THEN UpdateSwapStatus(s, status)
                   ELSE dbStatus
    /\ attempts' = IF Updates(s, status, lookup) THEN attempts
                   ELSE [attempts EXCEPT ![s] = @ + 1]
    /\ UNCHANGED <<attemptedAt, broadcasts>>

\* handleSwapStatus, 258-290: it updates the status or returns; it neither
\* calls refundSwap nor broadcasts
handleSwapStatus(s, status, lookup) ==
    /\ dbStatus' = IF Updates(s, status, lookup) THEN UpdateSwapStatus(s, status)
                   ELSE dbStatus
    /\ UNCHANGED <<attempts, attemptedAt, broadcasts>>

\* refundTransactionId == ""
NoTransaction == 0

\* request.Address: address 1 is not a valid address of the swap's
\* from-currency, every other one is
InvalidAddress == 1
Addresses == 1..MaxAddress

\* database.QueryPendingSwaps
QueryPendingSwaps == {s \in SwapIds : dbStatus[s] \notin CompletedStatus}

\* the swaps of a set as the slice a query returns: ordered by id
RECURSIVE Rows(_)
Rows(set) ==
    IF set = {} THEN <<>>
    ELSE LET s == CHOOSE x \in set : \A y \in set : x <= y
         IN  <<s>> \o Rows(set \ {s})

\* database.QueryRefundableSwaps(height)
QueryRefundableSwaps(height) ==
    {s \in QueryPendingSwaps :
        /\ lockupTransactionId[s]
        /\ refundTransactionId[s] = NoTransaction
        /\ timeoutBlockHeight[s] <= height}

(* RegisterSwap, 208-256 *)

\* 211: go func() {...}: the listener goroutine exists, its entry does not yet
RegisterSwap(s) == lPc' = [lPc EXCEPT ![s] = "spawned"]

\* 212-216: the goroutine puts its stop channel into eventListeners
ListenerRegister(s) ==
    /\ lPc[s] = "spawned"
    /\ eventListeners' = eventListeners \cup {s}
    /\ lPc' = [lPc EXCEPT ![s] = "select"]
    /\ UNCHANGED <<createVars, extraVars, dbVars, invoiceSettled, lEvent, recoverVars,
                   blockVars, rpcVars, ghostVars>>

\* 233-238: case event := <-eventStream
ListenerReceive(s) ==
    /\ lPc[s] = "select"
    /\ \E ev \in Events : lEvent' = [lEvent EXCEPT ![s] = ev]
    /\ lPc' = [lPc EXCEPT ![s] = "handle"]
    /\ UNCHANGED <<createVars, extraVars, dbVars, invoiceSettled, eventListeners, recoverVars,
                   blockVars, rpcVars, ghostVars>>

\* 239-244: handleSwapStatus, then return once swap.Status is
\* transaction.claimed. swap.Status is the goroutine's copy; it is
\* transaction.claimed exactly when this call updated the status to it.
ListenerHandle(s) ==
    /\ lPc[s] = "handle"
    /\ \E lookup \in Lookups :
        /\ handleSwapStatus(s, lEvent[s], lookup)
        /\ lPc' = [lPc EXCEPT ![s] =
                     IF lEvent[s] = "transaction.claimed" /\ Updates(s, lEvent[s], lookup)
                     THEN "exited" ELSE "select"]
    /\ UNCHANGED <<createVars, extraVars, lockupTransactionId, refundTransactionId,
                   timeoutBlockHeight, invoiceSettled, eventListeners, lEvent,
                   recoverVars, blockVars, rpcVars, reported, eligible>>

\* the lightning node: the invoice of the swap gets paid
InvoicePaid(s) ==
    /\ ~invoiceSettled[s]
    /\ invoiceSettled' = [invoiceSettled EXCEPT ![s] = TRUE]
    /\ UNCHANGED <<createVars, extraVars, dbVars, listenerVars, recoverVars, blockVars,
                   rpcVars, ghostVars>>

(* recoverSwaps, 160-206 *)

\* Mutant: a swap whose status changed is not registered again.
RecoverSwapDropsChanged ==
    /\ recPc = "run"
    /\ recQueue # <<>>
    /\ LET s == Head(recQueue) IN
       \E status \in Statuses \cup {"error"}, lookup \in Lookups :
          IF status = "error"
          THEN /\ recPc' = "failed"
               /\ UNCHANGED <<recQueue, recStatus, dbStatus, lPc, attempts, attemptedAt,
                              broadcasts>>
          ELSE /\ recPc' = recPc
               /\ recQueue' = Tail(recQueue)
               /\ recStatus' = [recStatus EXCEPT ![s] = status]
               /\ IF status # dbStatus[s]
                  THEN /\ handleSwapStatus(s, "transaction.claimed", lookup)
                       /\ lPc' = lPc
                  ELSE /\ RegisterSwap(s)
                       /\ UNCHANGED <<dbStatus, attempts, attemptedAt, broadcasts>>
    /\ UNCHANGED <<createVars, extraVars, lockupTransactionId, refundTransactionId,
                   timeoutBlockHeight, invoiceSettled, eventListeners, lEvent,
                   blockVars, rpcVars, reported, eligible>>

\* 169-201: one iteration of the loop; the exchange answers SwapStatus
\* with a status or fails. On a changed status the code hands
\* "transaction.claimed" to handleSwapStatus (181).
RecoverSwap ==
    /\ recPc = "run"
    /\ recQueue # <<>>
    /\ LET s == Head(recQueue) IN
       \E status \in Statuses \cup {"error"}, lookup \in Lookups :
          IF status = "error"
          THEN /\ recPc' = "failed"
               /\ UNCHANGED <<recQueue, recStatus, dbStatus, lPc, attempts, attemptedAt,
                              broadcasts>>
          ELSE /\ recPc' = recPc
               /\ recQueue' = Tail(recQueue)
               /\ recStatus' = [recStatus EXCEPT ![s] = status]
               /\ IF status # dbStatus[s]
                  THEN /\ handleSwapStatus(s, "transaction.claimed", lookup)
                       /\ IF dbStatus'[s] \in CompletedStatus
                          THEN lPc' = lPc
                          ELSE RegisterSwap(s)
                  ELSE /\ RegisterSwap(s)
                       /\ UNCHANGED <<dbStatus, attempts, attemptedAt, broadcasts>>
    /\ UNCHANGED <<createVars, extraVars, lockupTransactionId, refundTransactionId,
                   timeoutBlockHeight, invoiceSettled, eventListeners, lEvent,
                   blockVars, rpcVars, reported, eligible>>

\* 203: nursery.startBlockListener(blockNotifier)
startBlockListener ==
    /\ recPc = "run"
    /\ recQueue = <<>>
    /\ recPc' = "done"
    /\ blPc' = "recv"
    /\ recStatus' = [s \in SwapIds |-> "none"]
    /\ UNCHANGED <<createVars, extraVars, dbVars, invoiceSettled, listenerVars, recQueue,
                   newBlock, swapsToRefund, rpcVars, ghostVars>>

(* startBlockListener, 26-59, and refundSwap, 61-139 *)

\* 31: the height handed to QueryRefundableSwaps
RefundHeight(height) == height

\* 29-39: a block arrives; the refundable swaps are queried (the query may
\* fail: 33-36)
NewBlock ==
    /\ blPc = "recv"
    /\ newBlock < MaxHeight
    /\ newBlock' = newBlock + 1
    /\ \E queryOk \in BOOLEAN :
        LET found == IF queryOk THEN QueryRefundableSwaps(RefundHeight(newBlock + 1))
                     ELSE {}
        IN  /\ swapsToRefund' = Rows(found)
            /\ reported' = found
            /\ eligible' = IF queryOk
                           THEN {s \in QueryPendingSwaps :
                                   /\ lockupTransactionId[s]
                                   /\ refundTransactionId[s] = NoTransaction}
                           ELSE {}
            /\ blPc' = IF found = {} THEN "recv" ELSE "lookup"
    /\ UNCHANGED <<createVars, extraVars, dbVars, invoiceSettled, listenerVars, recoverVars,
                   rpcVars, attempts, attemptedAt, broadcasts>>

\* 42-46: read the swap's entry of eventListeners
BlockLookup ==
    /\ blPc = "lookup"
    /\ blPc' = IF Head(swapsToRefund) \in eventListeners THEN "stop" ELSE "refund"
    /\ UNCHANGED <<createVars, extraVars, dbVars, invoiceSettled, listenerVars, recoverVars,
                   newBlock, swapsToRefund, rpcVars, ghostVars>>

\* 47 and 250-252: stopListening <- true, an unbuffered send: it completes
\* when the listener goroutine is in its select
BlockStop ==
    /\ blPc = "stop"
    /\ lPc[Head(swapsToRefund)] = "select"
    /\ lPc' = [lPc EXCEPT ![Head(swapsToRefund)] = "stopped"]
    /\ blPc' = "delete"
    /\ UNCHANGED <<createVars, extraVars, dbVars, invoiceSettled, eventListeners, lEvent,
                   recoverVars, newBlock, swapsToRefund, rpcVars, ghostVars>>

\* 47 against 241-243: the listener returned after transaction.claimed and
\* left its channel in eventListeners; nothing receives from it any more, so
\* the send never completes and the block listener handles nothing further
BlockListenerStuck ==
    /\ blPc = "stop"
    /\ lPc[Head(swapsToRefund)] = "exited"

\* 49-51: delete(eventListeners, swapToRefund.Id)
BlockDelete ==
    /\ blPc = "delete"
    /\ eventListeners' = eventListeners \ {Head(swapsToRefund)}
    /\ blPc' = "refund"
    /\ UNCHANGED <<createVars, extraVars, dbVars, invoiceSettled, lPc, lEvent, recoverVars,
                   newBlock, swapsToRefund, rpcVars, ghostVars>>

\* the calls of refundSwap that can fail, in program order (62-134)
refundSwapSteps ==
    <<"NewAddress", "DecodeAddress", "GetSwapTransaction", "hex.DecodeString",
      "NewTxFromBytes", "findLockupVout", "ConstructRefundTransaction",
      "SerializeTransaction", "BroadcastTransaction">>

\* the for loop at 41 goes to its next swap, or back to the receive at 29
NextSwap ==
    /\ swapsToRefund' = Tail(swapsToRefund)
    /\ blPc' = IF Tail(swapsToRefund) = <<>> THEN "recv" ELSE "lookup"

\* 54, 61-136: refundSwap up to the broadcast; f is the step that fails
BlockRefund ==
    /\ blPc = "refund"
    /\ LET s == Head(swapsToRefund) IN
       /\ attempts' = [attempts EXCEPT ![s] = @ + 1]
       /\ attemptedAt' = [attemptedAt EXCEPT ![s] = newBlock]
       /\ \E f \in 1..(Len(refundSwapSteps) + 1) :
            IF f <= Len(refundSwapSteps)
            THEN /\ NextSwap
                 /\ broadcasts' = broadcasts
            ELSE /\ broadcasts' = [broadcasts EXCEPT ![s] = @ + 1]
                 /\ blPc' = "update"
                 /\ swapsToRefund' = swapsToRefund
    /\ UNCHANGED <<createVars, extraVars, dbVars, invoiceSettled, listenerVars, recoverVars,
                   newBlock, rpcVars, reported, eligible>>

\* 138: nursery.handleSwapStatus(&swap, boltz.SwapRefunded.String())
BlockUpdate ==
    /\ blPc = "update"
    /\ handleSwapStatus(Head(swapsToRefund), "swap.refunded", "state")
    /\ NextSwap
    /\ UNCHANGED <<createVars, extraVars, lockupTransactionId, refundTransactionId,
                   timeoutBlockHeight, invoiceSettled, listenerVars, recoverVars,
                   newBlock, rpcVars, reported, eligible>>

\* the database when the daemon starts: every swap pending, with or
\* without a lockup transaction
InitNursery ==
    /\ CreateOff
    /\ ExtraOff
    /\ lightning = TRUE
    /\ dbStatus = [s \in SwapIds |-> "swap.created"]
    /\ lockupTransactionId \in [SwapIds -> BOOLEAN]
    /\ refundTransactionId = [s \in SwapIds |-> NoTransaction]
    /\ timeoutBlockHeight \in [SwapIds -> 1..MaxHeight]
    /\ invoiceSettled = [s \in SwapIds |-> FALSE]
    /\ eventListeners = {}
    /\ lPc = [s \in SwapIds |-> "none"]
    /\ lEvent = [s \in SwapIds |-> "none"]
    /\ recPc = "run"
    /\ recQueue = Rows(QueryPendingSwaps)
    /\ recStatus = [s \in SwapIds |-> "none"]
    /\ blPc = "off"
    /\ newBlock = 0
    /\ swapsToRefund = <<>>
    /\ rpcPc = [r \in RpcCalls |-> "idle"]
    /\ rpcSwap = [r \in RpcCalls |-> 0]
    /\ rpcAddress = [r \in RpcCalls |-> NoAddress]
    /\ rpcErr = [r \in RpcCalls |-> "none"]
    /\ refundAddress = [s \in SwapIds |-> NoAddress]
    /\ attempts = [s \in SwapIds |-> 0]
    /\ attemptedAt = [s \in SwapIds |-> 0]
    /\ broadcasts = [s \in SwapIds |-> 0]
    /\ reported = {}
    /\ eligible = {}

NextNursery ==
    \/ RecoverSwap
    \/ startBlockListener
    \/ \E s \in SwapIds : ListenerRegister(s)
    \/ \E s \in SwapIds : ListenerReceive(s)
    \/ \E s \in SwapIds : ListenerHandle(s)
    \/ \E s \in SwapIds : InvoicePaid(s)
    \/ NewBlock
    \/ BlockLookup
    \/ BlockStop
    \/ BlockDelete
    \/ BlockRefund
    \/ BlockUpdate

SpecNursery == InitNursery /\ [][NextNursery]_vars

----------------------------------------------------------------------------
(* RefundSwap RPC, router.go 200-223 *)

\* 210: boltz.ValidateAddress(server.network, request.Address, swap.Pair.From)
ValidateAddress(address) == address # InvalidAddress

\* Mutant: the swap is looked up in both tables (QueryAnySwap).
RefundSwapErrorAnySwap(id, address) ==
    IF id \notin SwapIds \cup ReverseSwapIds THEN "NotFound"
    ELSE IF id \in SwapIds /\
            (~lockupTransactionId[id] \/ refundTransactionId[id] # NoTransaction)
         THEN "FailedPrecondition"
    ELSE IF ~ValidateAddress(address) THEN "InvalidArgument"
    ELSE "none"

\* Mutant: the refundable check at 206 is left out.
RefundSwapErrorUnchecked(id, address) ==
    IF id \notin SwapIds THEN "NotFound"
    ELSE IF ~ValidateAddress(address) THEN "InvalidArgument"
    ELSE "none"

\* 201-212: QuerySwap, the refundable check and ValidateAddress, in this
\* order; the status code of the first that fails
RefundSwapError(id, address) ==
    IF id \notin SwapIds THEN "NotFound"
    ELSE IF ~lockupTransactionId[id] \/ refundTransactionId[id] # NoTransaction
         THEN "FailedPrecondition"
    ELSE IF ~ValidateAddress(address) THEN "InvalidArgument"
    ELSE "none"

\* 200-212: the call arrives and is checked. id 0 is an id the database does
\* not know, the ids of ReverseSwapIds are rows of table reverseSwaps.
RefundSwapCheck(r) ==
    /\ rpcPc[r] = "idle"
    /\ \E id \in SwapIds \cup ReverseSwapIds \cup {0}, address \in Addresses :
        /\ rpcSwap' = [rpcSwap EXCEPT ![r] = id]
        /\ rpcAddress' = [rpcAddress EXCEPT ![r] = address]
        /\ rpcErr' = [rpcErr EXCEPT ![r] = RefundSwapError(id, address)]
        /\ rpcPc' = [rpcPc EXCEPT ![r] =
                        IF RefundSwapError(id, address) = "none"
                        THEN "setAddress" ELSE "done"]
    /\ UNCHANGED <<createVars, extraVars, dbVars, invoiceSettled, listenerVars, recoverVars,
                   blockVars, refundAddress, ghostVars>>

\* 214-216: database.SetSwapRefundRefundAddress
RefundSwapSetAddress(r) ==
    /\ rpcPc[r] = "setAddress"
    /\ \E ok \in BOOLEAN :
        IF ok
        THEN /\ refundAddress' = [refundAddress EXCEPT ![rpcSwap[r]] = rpcAddress[r]]
             /\ rpcPc' = [rpcPc EXCEPT ![r] = "refund"]
             /\ rpcErr' = rpcErr
        ELSE /\ refundAddress' = refundAddress
             /\ rpcPc' = [rpcPc EXCEPT ![r] = "done"]
             /\ rpcErr' = [rpcErr EXCEPT ![r] = "error"]
    /\ UNCHANGED <<createVars, extraVars, dbVars, invoiceSettled, listenerVars, recoverVars,
                   blockVars, rpcSwap, rpcAddress, ghostVars>>

\* 218-220: nursery.RefundSwaps([]database.Swap{*swap}, true). The swap is
\* handed over by value: the copy read at 201, which passed the check at 206.
\* RefundSwaps refunds it now, if refundable (spec 4.C): under the mutex
\* of the swap it builds and broadcasts the refund, then persists
\* refundTransactionId and the refunded status; a failure at any step
\* returns the error. Refundable is read here in the way that favours the
\* program most: from the database, inside the mutex.
RefundSwaps(r) ==
    /\ rpcPc[r] = "refund"
    /\ rpcPc' = [rpcPc EXCEPT ![r] = "done"]
    /\ LET s == rpcSwap[r] IN
       \E ok \in BOOLEAN :
          /\ rpcErr' = [rpcErr EXCEPT ![r] = IF ok THEN "none" ELSE "error"]
          /\ IF ok /\ lockupTransactionId[s] /\ refundTransactionId[s] = NoTransaction
             THEN /\ broadcasts' = [broadcasts EXCEPT ![s] = @ + 1]
                  /\ refundTransactionId' =
                       [refundTransactionId EXCEPT ![s] = broadcasts[s] + 1]
                  /\ dbStatus' = UpdateSwapStatus(s, "swap.refunded")
             ELSE UNCHANGED <<broadcasts, refundTransactionId, dbStatus>>
    /\ UNCHANGED <<createVars, extraVars, lockupTransactionId, timeoutBlockHeight,
                   invoiceSettled, listenerVars, recoverVars, blockVars, rpcSwap,
                   rpcAddress, refundAddress, attempts, attemptedAt, reported,
                   eligible>>

\* 203, 207, 211, 215, 219, 222: the call returns; the server takes the next
RefundSwapReturn(r) ==
    /\ rpcPc[r] = "done"
    /\ rpcPc' = [rpcPc EXCEPT ![r] = "idle"]
    /\ rpcSwap' = [rpcSwap EXCEPT ![r] = 0]
    /\ rpcAddress' = [rpcAddress EXCEPT ![r] = NoAddress]
    /\ rpcErr' = [rpcErr EXCEPT ![r] = "none"]
    /\ UNCHANGED <<createVars, extraVars, dbVars, invoiceSettled, listenerVars, recoverVars,
                   blockVars, refundAddress, ghostVars>>

\* RefundSwap calls next to recovery and the block listener. The status
\* listeners stay where RegisterSwap spawned them, so the block listener
\* finds no entry to stop.
NextRefund ==
    \/ RecoverSwap
    \/ startBlockListener
    \/ NewBlock
    \/ BlockLookup
    \/ BlockRefund
    \/ BlockUpdate
    \/ \E r \in RpcCalls : RefundSwapCheck(r)
    \/ \E r \in RpcCalls : RefundSwapSetAddress(r)
    \/ \E r \in RpcCalls : RefundSwaps(r)
    \/ \E r \in RpcCalls : RefundSwapReturn(r)

SpecRefund == InitNursery /\ [][NextRefund]_vars

----------------------------------------------------------------------------
(* Claims about the nursery (SpecNursery) and about refunds (SpecRefund) *)

\* C5: under every interleaving of block events and status events a swap
\* never becomes both refunded and claimed: once it is recorded as refunded
\* no later status event overwrites that status, and a swap recorded as
\* claimed keeps that status and is never refunded.
C5_RefundedXorClaimed ==
    [][\A s \in SwapIds :
        /\ dbStatus[s] = "swap.refunded" => dbStatus'[s] = "swap.refunded"
        /\ dbStatus[s] = "transaction.claimed" =>
              /\ dbStatus'[s] = "transaction.claimed"
              /\ broadcasts'[s] = broadcasts[s]]_vars

\* C6: a transaction.claimed status is persisted only if the lightning node
\* reports the invoice SETTLED; otherwise (decode error, lookup error, not
\* settled) the persisted status stays as it is and the listener goes back
\* to waiting for events.
C6_ClaimedOnlyIfSettled ==
    [][\A s \in SwapIds :
        /\ (dbStatus[s] # "transaction.claimed" /\ dbStatus'[s] = "transaction.claimed")
              => invoiceSettled[s]
        /\ (/\ lPc[s] = "handle"
            /\ lPc'[s] # "handle"
            /\ lEvent[s] = "transaction.claimed"
            /\ (~invoiceSettled[s] \/ dbStatus'[s] # "transaction.claimed"))
              => (dbStatus'[s] = dbStatus[s] /\ lPc'[s] = "select")]_vars

\* the listener handled transaction.claimed for an unsettled invoice and is
\* back in its select, the status not advanced
C6_Witness ==
    \E s \in SwapIds :
        /\ lPc[s] = "select"
        /\ lEvent[s] = "transaction.claimed"
        /\ ~invoiceSettled[s]
        /\ dbStatus[s] = "swap.created"

\* C7: a block-triggered refund that fails at any step leaves the persisted
\* status unchanged and the block listener running, and the refund is
\* attempted again at the next block event whose query reports the swap
\* refundable: the block listener neither takes a further block nor comes to
\* a halt before it has attempted every such swap.
C7_FailedRefundRetried ==
    /\ [][\A s \in SwapIds :
            (attempts'[s] # attempts[s] /\ broadcasts'[s] = broadcasts[s]) =>
                (dbStatus' = dbStatus /\ blPc' \in {"recv", "lookup"})]_vars
    /\ [](blPc = "recv" => \A s \in reported : attemptedAt[s] = newBlock)
    /\ [](BlockListenerStuck =>
            \A s \in reported :
                (attempts[s] > 0 /\ dbStatus[s] \in Pending) =>
                    attemptedAt[s] = newBlock)

\* C8: a block whose height equals the timeoutBlockHeight of a pending swap
\* with a lockup and no refund has the refund of that swap attempted while
\* this block is handled: the block listener neither takes the next block
\* nor comes to a halt before the attempt.
C8_RefundAtTimeoutHeight ==
    /\ blPc = "recv" =>
          \A s \in eligible :
              timeoutBlockHeight[s] = newBlock => attemptedAt[s] = newBlock
    /\ BlockListenerStuck =>
          \A s \in eligible :
              (timeoutBlockHeight[s] = newBlock /\ dbStatus[s] \in Pending) =>
                  attemptedAt[s] = newBlock

\* C9: nursery.refundSwap is called only by the block listener, for a swap
\* that the query of the current block reported refundable; neither a status
\* event nor recoverSwaps calls it.
C9_RefundOnlyFromBlockListener ==
    [][\A s \in SwapIds :
        attempts'[s] # attempts[s] =>
            /\ blPc = "refund"
            /\ Head(swapsToRefund) = s
            /\ s \in reported
            /\ recPc = "done"]_vars

\* a listener handled a claimed event for an unsettled invoice, and later
\* the block listener stopped it and called refundSwap
C9_Witness ==
    \E s \in SwapIds :
        /\ attempts[s] = 1
        /\ lPc[s] = "stopped"
        /\ lEvent[s] = "transaction.claimed"

\* C10: over every interleaving of RefundSwap RPCs and block-triggered
\* refunds, refundTransactionId is set at most once and never cleared, and
\* at most one refund is broadcast for a swap.
C10_RefundAtMostOnce ==
    /\ [][\A s \in SwapIds :
            refundTransactionId[s] # NoTransaction =>
                refundTransactionId'[s] = refundTransactionId[s]]_vars
    /\ [](\A s \in SwapIds : broadcasts[s] <= 1)

\* C11: RefundSwap answers NotFound for an unknown id, FailedPrecondition
\* when the swap has no lockup transaction or already a refund transaction,
\* InvalidArgument for an address that is not valid; in each of these cases
\* the call ends there, the stored refund address is not changed and
\* nursery.RefundSwaps is not called. The refund address is written and
\* RefundSwaps is called only by a call that passed the three checks.
C11_RefundSwapPreconditions ==
    [][\A r \in RpcCalls :
        /\ (rpcPc[r] = "idle" /\ rpcPc'[r] # "idle") =>
              LET id == rpcSwap'[r]
                  known == id \in SwapIds
                  refundable == /\ known
                                /\ lockupTransactionId[id]
                                /\ refundTransactionId[id] = NoTransaction
              IN  /\ ~known => rpcErr'[r] = "NotFound"
                  /\ (known /\ ~refundable) => rpcErr'[r] = "FailedPrecondition"
                  /\ (refundable /\ rpcAddress'[r] = InvalidAddress)
                        => rpcErr'[r] = "InvalidArgument"
                  /\ (refundable /\ rpcAddress'[r] # InvalidAddress)
                        => (rpcErr'[r] = "none" /\ rpcPc'[r] = "setAddress")
                  /\ rpcErr'[r] # "none" => rpcPc'[r] = "done"
                  /\ refundAddress' = refundAddress
        /\ rpcPc'[r] = "refund" => (rpcPc[r] \in {"setAddress", "refund"}
                                    /\ rpcErr'[r] = "none")
        /\ rpcPc'[r] = "setAddress" => rpcErr'[r] = "none"]_vars

\* a second RefundSwap for a swap the first one refunded is refused, and the
\* refund address the first one stored is still there
C11_Witness ==
    \E r \in RpcCalls :
        /\ rpcErr[r] = "FailedPrecondition"
        /\ rpcPc[r] = "done"
        /\ rpcSwap[r] \in SwapIds
        /\ lockupTransactionId[rpcSwap[r]]
        /\ refundTransactionId[rpcSwap[r]] # NoTransaction
        /\ refundAddress[rpcSwap[r]] # NoAddress

\* C23: a reverse swap is never refunded. A RefundSwap call for the id of a
\* reverse swap ends with NotFound before the refund address is written or
\* RefundSwaps is called, the block listener never has a reverse swap among
\* the swaps it refunds, and no refund transaction or refund address is
\* recorded for a reverse swap id.
C23_ReverseSwapNeverRefunded ==
    /\ \A r \in RpcCalls :
          rpcSwap[r] \in ReverseSwapIds =>
              /\ rpcPc[r] = "done"
              /\ rpcErr[r] = "NotFound"
    /\ reported \cap ReverseSwapIds = {}
    /\ \A i \in 1..Len(swapsToRefund) : swapsToRefund[i] \notin ReverseSwapIds
    /\ DOMAIN refundTransactionId \cap ReverseSwapIds = {}
    /\ DOMAIN refundAddress \cap ReverseSwapIds = {}
    /\ DOMAIN attempts \cap ReverseSwapIds = {}

\* RefundSwap was asked for a reverse swap and answered NotFound, while the
\* block listener has refunded a submarine swap
C23_Witness ==
    /\ \E r \in RpcCalls :
          /\ rpcSwap[r] \in ReverseSwapIds
          /\ rpcPc[r] = "done"
          /\ rpcErr[r] = "NotFound"
    /\ \E s \in SwapIds : attempts[s] > 0 /\ refundTransactionId[s] # NoTransaction

----------------------------------------------------------------------------
(* BoltzWebsocket, electrum.go 75-241 *)

\* 89: const reconnectInterval = 15 * time.Second, in seconds
reconnectInterval == 15

\* 233: time.After(5 * time.Second), in seconds
subscribeTimeout == 5

\* 190: mapstructure.Decode(arg, &update): the update an arg decodes to; an
\* arg that does not decode leaves the zero SwapUpdate
ZeroUpdate == 0
Decode(arg) == IF arg.valid THEN arg.id ELSE ZeroUpdate

\* the args a swap.update push can carry when n args were pushed before:
\* none, one or two, numbered in the order the exchange emits them
PushArgs(n) ==
    {<<>>} \cup
    {<<[id |-> n + 1, valid |-> v]>> : v \in BOOLEAN} \cup
    {<<[id |-> n + 1, valid |-> TRUE], [id |-> n + 2, valid |-> v]>> : v \in BOOLEAN}

\* text and ping messages the reader tells apart at 168-203; "other" is a
\* text message that does not parse, carries an error, or has an unknown
\* event or channel
Other == [kind |-> "other", args |-> <<>>, for |-> 0]
Ping == [kind |-> "ping", args |-> <<>>, for |-> 0]
SubscribeAck(n) == [kind |-> "subscribe", args |-> <<>>, for |-> n]
SwapUpdatePush(args) == [kind |-> "update", args |-> args, for |-> 0]

WsRunning == ~wsPanicked

(* the exchange and the network *)

\* the exchange pushes a swap.update, a ping or some other message
ExchangePush ==
    /\ WsRunning
    /\ wsConn = "open"
    /\ Len(wsInbox) < MaxInbox
    /\ \/ \E args \in PushArgs(wsPushed) :
            /\ wsPushed + Len(args) <= MaxUpdates
            /\ wsInbox' = Append(wsInbox, SwapUpdatePush(args))
            /\ wsPushed' = wsPushed + Len(args)
       \/ /\ wsInbox' = Append(wsInbox, Ping)
          /\ wsPushed' = wsPushed
       \/ /\ wsInbox' = Append(wsInbox, Other)
          /\ wsPushed' = wsPushed
    /\ UNCHANGED <<createVars, nurseryVars, rblVars, otherVars, wsClosed, wsConn, wsPc, wsPending,
                   wsUpdatesClosed, wsPanicked, wsReceived, wsSent, wsPaused,
                   wsAckFor, subVars>>

\* the exchange acknowledges a subscribe request
ExchangeAck ==
    /\ WsRunning
    /\ wsConn = "open"
    /\ Len(wsInbox) < MaxInbox
    /\ \E n \in subDue :
        /\ wsInbox' = Append(wsInbox, SubscribeAck(n))
        /\ subDue' = subDue \ {n}
    /\ UNCHANGED <<createVars, nurseryVars, rblVars, otherVars, wsClosed, wsConn, wsPc, wsPending,
                   wsUpdatesClosed, wsPanicked, wsReceived, wsSent, wsPaused,
                   wsPushed, wsAckFor, subPc, subElapsed, subArgs, subResult,
                   subRequest, subSends, subAckFor>>

\* the connection is lost: what was not read is gone, requests on it are
\* never acknowledged
ConnectionLost ==
    /\ WsRunning
    /\ wsConn = "open"
    /\ wsConn' = "broken"
    /\ wsInbox' = <<>>
    /\ subDue' = {}
    /\ UNCHANGED <<createVars, nurseryVars, rblVars, otherVars, wsClosed, wsPc, wsPending,
                   wsUpdatesClosed, wsPanicked, wsReceived, wsSent, wsPaused,
                   wsPushed, wsAckFor, subPc, subElapsed, subArgs, subResult,
                   subRequest, subSends, subAckFor>>

(* Connect, 130-217 *)

\* 131-150: what Connect does to the connection; dialOk is the outcome of
\* websocket.DefaultDialer.Dial. boltz.conn is assigned before the error is
\* looked at, so a failed Dial leaves it nil.
ConnectErr(dialOk) ==
    IF wsClosed THEN "websocket is closed"
    ELSE IF ~dialOk THEN "could not connect"
    ELSE "none"

ConnectConn(dialOk) ==
    IF wsClosed THEN wsConn
    ELSE IF dialOk THEN "open" ELSE "nil"

\* the first Connect, called by whoever owns the websocket
Connect ==
    /\ WsRunning
    /\ wsPc = "none"
    /\ \E dialOk \in BOOLEAN :
        /\ wsConn' = ConnectConn(dialOk)
        /\ wsPc' = IF ConnectErr(dialOk) = "none" THEN "read" ELSE "none"
    /\ wsInbox' = <<>>
    /\ UNCHANGED <<createVars, nurseryVars, rblVars, otherVars, wsClosed, wsPending, wsUpdatesClosed,
                   wsPanicked, wsReceived, wsSent, wsPaused, wsPushed, wsAckFor,
                   subVars>>

\* 156-164: conn.ReadMessage() fails
ReadError ==
    /\ WsRunning
    /\ wsPc = "read"
    /\ wsConn \in {"broken", "closed"}
    /\ IF wsClosed
       THEN /\ wsUpdatesClosed' = wsUpdatesClosed + 1
            /\ wsPc' = "terminated"
       ELSE /\ wsUpdatesClosed' = wsUpdatesClosed
            /\ wsPc' = "sleep"
    /\ UNCHANGED <<createVars, nurseryVars, rblVars, otherVars, wsClosed, wsConn, wsInbox, wsPending,
                   wsPanicked, wsReceived, wsSent, wsPaused, wsPushed, wsAckFor,
                   subVars>>

\* 156, 166-204: conn.ReadMessage() returns a message
ReadMessage ==
    /\ WsRunning
    /\ wsPc = "read"
    /\ wsConn = "open"
    /\ wsInbox # <<>>
    /\ LET message == Head(wsInbox) IN
       /\ wsInbox' = Tail(wsInbox)
       /\ wsPending' = IF message.kind = "update" THEN message.args ELSE <<>>
       /\ wsReceived' = IF message.kind = "update"
                        THEN wsReceived \o message.args ELSE wsReceived
       /\ wsAckFor' = IF message.kind = "subscribe" THEN message.for ELSE wsAckFor
       /\ wsPc' = IF message.kind = "update" /\ message.args # <<>> THEN "deliver"
                  ELSE IF message.kind = "subscribe" THEN "ack"
                  ELSE "read"
    /\ UNCHANGED <<createVars, nurseryVars, rblVars, otherVars, wsClosed, wsConn, wsUpdatesClosed,
                   wsPanicked, wsSent, wsPaused, wsPushed, subVars>>

\* Mutant: each update is handed over by a goroutine of its own, so the
\* receiver gets the args of a push in any order.
SendUpdateUnordered ==
    /\ WsRunning
    /\ wsPc = "deliver"
    /\ \E i \in 1..Len(wsPending) :
        /\ wsSent' = Append(wsSent, Decode(wsPending[i]))
        /\ wsPending' = SubSeq(wsPending, 1, i - 1) \o
                        SubSeq(wsPending, i + 1, Len(wsPending))
    /\ wsPc' = IF Len(wsPending) = 1 THEN "read" ELSE "deliver"
    /\ UNCHANGED <<createVars, nurseryVars, rblVars, otherVars, wsClosed, wsConn, wsInbox,
                   wsUpdatesClosed, wsPanicked, wsReceived, wsPaused, wsPushed,
                   wsAckFor, subVars>>

\* 188-194: boltz.Updates <- update, completed by the receiver of Updates
SendUpdate ==
    /\ WsRunning
    /\ wsPc = "deliver"
    /\ wsSent' = Append(wsSent, Decode(Head(wsPending)))
    /\ wsPending' = Tail(wsPending)
    /\ wsPc' = IF Tail(wsPending) = <<>> THEN "read" ELSE "deliver"
    /\ UNCHANGED <<createVars, nurseryVars, rblVars, otherVars, wsClosed, wsConn, wsInbox,
                   wsUpdatesClosed, wsPanicked, wsReceived, wsPaused, wsPushed,
                   wsAckFor, subVars>>

\* 206-208: time.Sleep(reconnectInterval)
Sleep ==
    /\ WsRunning
    /\ wsPc = "sleep"
    /\ wsPaused' = reconnectInterval
    /\ wsPc' = "connect"
    /\ UNCHANGED <<createVars, nurseryVars, rblVars, otherVars, wsClosed, wsConn, wsInbox, wsPending,
                   wsUpdatesClosed, wsPanicked, wsReceived, wsSent, wsPushed,
                   wsAckFor, subVars>>

\* 209-212: err := boltz.Connect(); the loop ends when err == nil, and then
\* the goroutine Connect started reads on
Reconnect ==
    /\ WsRunning
    /\ wsPc = "connect"
    /\ \E dialOk \in BOOLEAN :
        /\ wsConn' = ConnectConn(dialOk)
        /\ wsPc' = IF ConnectErr(dialOk) = "none" THEN "read" ELSE "sleep"
    /\ wsPaused' = 0
    /\ wsInbox' = <<>>
    /\ UNCHANGED <<createVars, nurseryVars, rblVars, otherVars, wsClosed, wsPending, wsUpdatesClosed,
                   wsPanicked, wsReceived, wsSent, wsPushed, wsAckFor, subVars>>

(* Close, 238-241 *)

Close ==
    /\ WsRunning
    /\ ~wsClosed
    /\ wsPc # "none"
    /\ wsClosed' = TRUE
    /\ wsPanicked' = (wsConn = "nil")
    /\ wsConn' = IF wsConn = "open" THEN "closed" ELSE wsConn
    /\ wsInbox' = <<>>
    /\ subDue' = {}
    /\ UNCHANGED <<createVars, nurseryVars, rblVars, otherVars, wsPc, wsPending, wsUpdatesClosed,
                   wsReceived, wsSent, wsPaused, wsPushed, wsAckFor, subPc,
                   subElapsed, subArgs, subResult, subRequest, subSends,
                   subAckFor>>

(* Subscribe, 219-236 *)

\* 220-229: the call up to the select
Subscribe ==
    /\ WsRunning
    /\ subPc = "idle"
    /\ wsPc # "none"
    /\ subRequest < MaxSubscribes
    /\ \E n \in 0..1 :
        /\ subArgs' = n
        /\ IF n = 0
           THEN /\ subPc' = "returned"
                /\ subResult' = "nil"
                /\ UNCHANGED <<subRequest, subSends, subDue, wsPanicked>>
           ELSE IF wsConn = "nil"
           THEN /\ wsPanicked' = TRUE
                /\ UNCHANGED <<subPc, subResult, subRequest, subSends, subDue>>
           ELSE IF wsConn # "open"
           THEN /\ subPc' = "returned"
                /\ subResult' = "sendError"
                /\ UNCHANGED <<subRequest, subSends, subDue, wsPanicked>>
           ELSE /\ subPc' = "waiting"
                /\ subResult' = "none"
                /\ subRequest' = subRequest + 1
                /\ subSends' = subSends + 1
                /\ subDue' = subDue \cup {subRequest + 1}
                /\ wsPanicked' = wsPanicked
    /\ subElapsed' = 0
    /\ subAckFor' = 0
    /\ UNCHANGED <<createVars, nurseryVars, rblVars, otherVars, wsClosed, wsConn, wsPc, wsInbox,
                   wsPending, wsUpdatesClosed, wsReceived, wsSent, wsPaused,
                   wsPushed, wsAckFor>>

\* a second passes while Subscribe waits in its select; none passes while
\* the reader stands at the send of 199, which the waiting select takes at
\* once
Tick ==
    /\ WsRunning
    /\ subPc = "waiting"
    /\ wsPc # "ack"
    /\ subElapsed < subscribeTimeout
    /\ subElapsed' = subElapsed + 1
    /\ UNCHANGED <<createVars, nurseryVars, rblVars, otherVars, wsVars, subPc, subArgs, subResult,
                   subRequest, subSends, subDue, subAckFor>>

\* 199 and 231-232: boltz.subscriptions <- true meets <-boltz.subscriptions;
\* the channel is unbuffered
Acknowledge ==
    /\ WsRunning
    /\ wsPc = "ack"
    /\ subPc = "waiting"
    /\ wsPc' = "read"
    /\ subPc' = "returned"
    /\ subResult' = "nil"
    /\ subAckFor' = wsAckFor
    /\ UNCHANGED <<createVars, nurseryVars, rblVars, otherVars, wsClosed, wsConn, wsInbox, wsPending,
                   wsUpdatesClosed, wsPanicked, wsReceived, wsSent, wsPaused,
                   wsPushed, wsAckFor, subElapsed, subArgs, subRequest, subSends,
                   subDue>>

\* 233-234: time.After fires
SubscribeTimeout ==
    /\ WsRunning
    /\ subPc = "waiting"
    /\ subElapsed = subscribeTimeout
    /\ subPc' = "returned"
    /\ subResult' = "no answer from boltz"
    /\ UNCHANGED <<createVars, nurseryVars, rblVars, otherVars, wsVars, subElapsed, subArgs,
                   subRequest, subSends, subDue, subAckFor>>

\* the caller of Subscribe goes on and may call again
SubscribeReturn ==
    /\ WsRunning
    /\ subPc = "returned"
    /\ subPc' = "idle"
    /\ subResult' = "none"
    /\ subSends' = 0
    /\ subArgs' = 0
    /\ UNCHANGED <<createVars, nurseryVars, rblVars, otherVars, wsVars, subElapsed, subRequest,
                   subDue, subAckFor>>

InitWs ==
    /\ NurseryOff
    /\ CreateOff
    /\ lightning = TRUE
    /\ WsOff
    /\ OtherOff
    /\ RblOff

NextWs ==
    \/ ExchangePush
    \/ ExchangeAck
    \/ ConnectionLost
    \/ Connect
    \/ ReadError
    \/ ReadMessage
    \/ SendUpdate
    \/ Sleep
    \/ Reconnect
    \/ Close
    \/ Subscribe
    \/ Tick
    \/ Acknowledge
    \/ SubscribeTimeout
    \/ SubscribeReturn

SpecWs == InitWs /\ [][NextWs]_vars

----------------------------------------------------------------------------
(* Claims about the websocket (SpecWs) *)

\* C12: after the connection is lost the client calls Connect again and
\* again, each time after a pause of 15 seconds and without giving up, until
\* a Connect succeeds or Close() was called; once Close() was called the
\* reconnect loop makes no further round: the Connect that finds the
\* websocket closed ends the task.
C12_ReconnectUntilClosed ==
    /\ [](wsPc = "connect" => wsPaused = reconnectInterval)
    /\ [][(wsPc = "connect" /\ wsPc' # wsPc /\ ~wsClosed) =>
            IF wsConn' = "open" THEN wsPc' = "read" ELSE wsPc' = "sleep"]_vars
    /\ [][(wsPc = "connect" /\ wsPc' # wsPc /\ wsClosed) =>
            wsPc' = "terminated"]_vars

\* C14: after Close() the reader task terminates and closes Updates exactly
\* once: the first thing it does once it sees the failed read or the refused
\* Connect is to close Updates and return, whether it was reading or in its
\* reconnect loop; Updates is never closed twice.
C14_CloseEndsReader ==
    /\ [][(wsClosed /\ wsPc \in {"read", "connect"} /\ wsPc' # wsPc) =>
            (wsPc' = "terminated" /\ wsUpdatesClosed' = 1)]_vars
    /\ [](wsUpdatesClosed <= 1)
    /\ [](wsPc = "terminated" => wsUpdatesClosed = 1)

Decoded(args) == [i \in 1..Len(args) |-> Decode(args[i])]

C30_OnlyDecodedUpdates ==
    /\ [](\A i \in 1..Len(wsSent) :
            \E j \in 1..Len(wsReceived) :
                wsReceived[j].valid /\ wsSent[i] = wsReceived[j].id)
    /\ [][(wsPc = "read" /\ wsInbox # <<>> /\ wsInbox' = Tail(wsInbox)
             /\ wsConn' = wsConn /\ Head(wsInbox).kind # "update") =>
               (wsSent' = wsSent /\ wsPending' = <<>> /\ wsPc' \in {"read", "ack"})]_vars
    /\ [][(wsPc = "deliver" /\ wsPending' # wsPending /\ ~Head(wsPending).valid) =>
               (wsSent' = wsSent /\ wsPc' \in {"read", "deliver"})]_vars

\* C16: Subscribe with a non-empty list sends one request and returns nil
\* exactly if the acknowledgement of this request reaches it within 5
\* seconds; otherwise it returns the send error or 'no answer from boltz'.
\* With an empty list it returns nil and sends nothing.
C16_SubscribeAcknowledged ==
    subPc = "returned" =>
        /\ subArgs = 0 => (subResult = "nil" /\ subSends = 0)
        /\ subArgs > 0 =>
              /\ subSends <= 1
              /\ subResult = "nil" <=>
                    /\ subSends = 1
                    /\ subAckFor = subRequest
                    /\ subElapsed <= subscribeTimeout
              /\ subResult # "nil" =>
                    subResult \in {"sendError", "no answer from boltz"}

\* the steps the reader goroutine of Connect can take
ReaderStep == ReadError \/ ReadMessage \/ SendUpdate \/ Acknowledge \/ Sleep \/ Reconnect

\* C31: the reader never stays blocked on an acknowledgement: when it has
\* read a 'subscribe' event and no Subscribe call is waiting (the call has
\* timed out, or there was none), it still has a step to take, so that the
\* updates that follow are read and sent on Updates.
C31_AckNeverBlocksReader ==
    (wsPc = "ack" /\ subPc # "waiting") => ENABLED ReaderStep

----------------------------------------------------------------------------
\* C32: once Connect has succeeded for the first time the connection is
\* never nil, so SendJson, Subscribe and Close never act on a nil connection,
\* also during and after failed reconnection attempts.
C32_ConnNeverNilAfterConnect ==
    wsPc # "none" => (wsConn # "nil" /\ ~wsPanicked)

(* Claims about recovery (SpecNursery) *)

\* a listener goroutine of the swap stands in its loop and has its entry
Tracked(s) == s \in eventListeners /\ lPc[s] \in {"select", "handle"}

\* C18: once recoverSwaps has returned nil, the block listener has been
\* started, and for every swap that was pending and is not in a completed
\* status a listener goroutine has been started: one goroutine and no second
\* one, which has its registration as its next step, always able to take
\* it, and tracks the swap from then on.
C18_RecoveredSwapsTracked ==
    /\ [](recPc = "done" => blPc # "off")
    /\ [](recPc = "done" =>
            \A s \in SwapIds : dbStatus[s] \notin CompletedStatus => lPc[s] # "none")
    /\ [](\A s \in SwapIds : lPc[s] = "spawned" => ENABLED ListenerRegister(s))
    /\ [][\A s \in SwapIds :
            /\ (lPc[s] = "spawned" /\ lPc'[s] # "spawned") => Tracked(s)'
            /\ lPc'[s] = "spawned" => lPc[s] \in {"none", "spawned"}]_vars

\* recovery is over: one swap was claimed meanwhile and got no listener,
\* the other one is pending and tracked, and the block listener waits
C18_Witness ==
    /\ recPc = "done"
    /\ blPc = "recv"
    /\ \E s, t \in SwapIds :
          /\ dbStatus[s] \in Pending /\ Tracked(s)
          /\ dbStatus[t] = "transaction.claimed" /\ lPc[t] = "none"

\* C35: during recovery a pending swap for which the exchange reports a
\* status other than the persisted one is advanced to the reported status
\* and to no other, and its listener is started unless the reported status
\* is a completed one.
C35_RecoveredToReportedStatus ==
    [][\A s \in SwapIds :
          (recStatus[s] = "none" /\ recStatus'[s] # "none"
              /\ recStatus'[s] # dbStatus[s]) =>
            /\ dbStatus'[s] = recStatus'[s]
            /\ lPc'[s] = "spawned" <=> recStatus'[s] \notin CompletedStatus]_vars

\* C24: while the block listener refunds a swap (refundSwap and the status
\* update that follows it), no listener goroutine of that swap exists that
\* handles, or can still come to handle, a status event: none was started,
\* or the one started was stopped or has returned.
C24_RefundExcludesListener ==
    blPc \in {"refund", "update"} =>
        lPc[Head(swapsToRefund)] \in {"none", "stopped", "exited"}

\* C33: the block listener never deadlocks: whenever it stands in the send
\* that tells a swap's listener to stop, that listener is in its select or
\* handles a status and comes back to it, so the send completes, the swaps
\* of the block are handled and the next block is received.
C33_StopAlwaysReceived ==
    blPc = "stop" =>
        /\ lPc[Head(swapsToRefund)] \in {"select", "handle"}
        /\ ~BlockListenerStuck

\* C34: eventListeners has an entry for a swap exactly while a listener
\* goroutine of the swap is running: a goroutine in its loop has its entry,
\* and an entry belongs to a goroutine that is in its loop or was just told
\* to stop (the block listener deletes the entry as its next step); no
\* entry outlives its goroutine.
C34_EntryIffListenerRuns ==
    \A s \in SwapIds :
        /\ lPc[s] \in {"select", "handle"} => s \in eventListeners
        /\ s \in eventListeners =>
              \/ lPc[s] \in {"select", "handle"}
              \/ lPc[s] = "stopped" /\ blPc = "delete" /\ Head(swapsToRefund) = s

----------------------------------------------------------------------------
(* RegisterBlockListener: electrum.go 51-65 and mempool.go 102-179 *)

\* a websocket message of mempool.space: a positive number is a block
\* message with that height, NoBlock a message without a block (height 0
\* after parsing, 173), Unparsable one that json.Unmarshal rejects (168-171)
NoBlock == 0
Unparsable == 0 - 1

Backends == {"electrum", "mempool"}

\* what the server may send besides blocks
OtherMessages(backend) == IF backend = "mempool" THEN {NoBlock, Unparsable} ELSE {}

\* the call holds a subscription
RblSubscribed == rblPc \in {"wait", "send"}

\* the server announces the next block to the subscriber
NewHeader ==
    /\ RblSubscribed
    /\ rblConn = "up"
    /\ rblTip < MaxTip
    /\ Len(rblInbox) < MaxInbox
    /\ Len(rblArrived) < MaxMessages
    /\ rblTip' = rblTip + 1
    /\ rblInbox' = Append(rblInbox, rblTip + 1)
    /\ rblArrived' = Append(rblArrived, rblTip + 1)
    /\ UNCHANGED <<createVars, nurseryVars, wsVars, subVars, otherVars, rblBackend, rblPc,
                   rblErr, rblStop, rblConn, rblPing, rblClosed, rblLeaked,
                   rblReceiving, blockHeight, rblForwarded, rblRead, rblCalls>>

\* mempool.space sends something that is not a block
OtherMessage ==
    /\ RblSubscribed
    /\ rblConn = "up"
    /\ Len(rblInbox) < MaxInbox
    /\ Len(rblArrived) < MaxMessages
    /\ \E m \in OtherMessages(rblBackend) :
          /\ rblInbox' = Append(rblInbox, m)
          /\ rblArrived' = Append(rblArrived, m)
    /\ UNCHANGED <<createVars, nurseryVars, wsVars, subVars, otherVars, rblBackend, rblPc,
                   rblErr, rblStop, rblConn, rblPing, rblClosed, rblLeaked,
                   rblReceiving, blockHeight, rblTip, rblForwarded, rblRead, rblCalls>>

\* the connection to the server breaks
BlockConnectionLost ==
    /\ rblPc # "returned"
    /\ rblConn = "up"
    /\ rblConn' = "lost"
    /\ UNCHANGED <<createVars, nurseryVars, wsVars, subVars, otherVars, rblBackend, rblPc,
                   rblErr, rblStop, rblPing, rblClosed, rblLeaked,
                   rblReceiving, rblInbox, blockHeight, rblTip, rblArrived,
                   rblForwarded, rblRead, rblCalls>>

\* the caller gives the stop signal: a value offered on the stop channel
GiveStop ==
    /\ rblCalls > 0
    /\ rblStop = "none"
    /\ rblStop' = "given"
    /\ UNCHANGED <<createVars, nurseryVars, wsVars, subVars, otherVars, rblBackend, rblPc,
                   rblErr, rblConn, rblPing, rblClosed, rblLeaked,
                   rblReceiving, rblInbox, blockHeight, rblTip, rblArrived,
                   rblForwarded, rblRead, rblCalls>>

\* part_000 26-59: the consumer of the channel stops receiving (its goroutine
\* is busy with a block, or stands in stopListening <- true for good)
ConsumerStops ==
    /\ rblCalls > 0
    /\ rblReceiving
    /\ rblReceiving' = FALSE
    /\ UNCHANGED <<createVars, nurseryVars, wsVars, subVars, otherVars, rblBackend, rblPc,
                   rblErr, rblStop, rblConn, rblPing, rblClosed, rblLeaked,
                   rblInbox, blockHeight, rblTip, rblArrived, rblForwarded, rblRead,
                   rblCalls>>

\* electrum.go 52-55: SubscribeHeaders on the client's connection
ElectrumSubscribe ==
    /\ rblBackend = "electrum"
    /\ rblPc = "subscribe"
    /\ IF rblConn = "up"
         THEN rblPc' = "wait" /\ rblErr' = "none"
         ELSE rblPc' = "returned" /\ rblErr' = "error"
    /\ UNCHANGED <<createVars, nurseryVars, wsVars, subVars, otherVars, rblBackend,
                   rblStop, rblConn, rblPing, rblClosed, rblLeaked,
                   rblReceiving, rblInbox, blockHeight, rblTip, rblArrived,
                   rblForwarded, rblRead, rblCalls>>

\* electrum.go 58-59: case <-stop: return nil
ElectrumStop ==
    /\ rblBackend = "electrum"
    /\ rblPc = "wait"
    /\ rblStop = "given"
    /\ rblStop' = "taken"
    /\ rblPc' = "returned"
    /\ rblErr' = "nil"
    /\ UNCHANGED <<createVars, nurseryVars, wsVars, subVars, otherVars, rblBackend,
                   rblConn, rblPing, rblClosed, rblLeaked, rblReceiving,
                   rblInbox, blockHeight, rblTip, rblArrived, rblForwarded, rblRead,
                   rblCalls>>

\* electrum.go 60-62: case result := <-results, up to the send on channel
ElectrumResult ==
    /\ rblBackend = "electrum"
    /\ rblPc = "wait"
    /\ rblInbox # <<>>
    /\ blockHeight' = Head(rblInbox)
    /\ rblInbox' = Tail(rblInbox)
    /\ rblRead' = Append(rblRead, Head(rblInbox))
    /\ rblPc' = "send"
    /\ UNCHANGED <<createVars, nurseryVars, wsVars, subVars, otherVars, rblBackend,
                   rblErr, rblStop, rblConn, rblPing, rblClosed, rblLeaked,
                   rblReceiving, rblTip, rblArrived, rblForwarded, rblCalls>>

\* electrum.go 62, mempool.go 174: channel <- &onchain.BlockEpoch{...},
\* completed by a consumer that receives
SendEpoch ==
    /\ rblPc = "send"
    /\ rblReceiving
    /\ rblForwarded' = Append(rblForwarded, blockHeight)
    /\ rblPc' = "wait"
    /\ UNCHANGED <<createVars, nurseryVars, wsVars, subVars, otherVars, rblBackend,
                   rblErr, rblStop, rblConn, rblPing, rblClosed, rblLeaked,
                   rblReceiving, rblInbox, blockHeight, rblTip, rblArrived,
                   rblRead, rblCalls>>

\* mempool.go 103-153: Dial, the two requests, closed := false, the ping
\* goroutine is started; a ping goroutine of an earlier call that has not
\* ended goes on running
MempoolDial(dialOk) ==
    /\ rblBackend = "mempool"
    /\ rblPc = "subscribe"
    /\ rblLeaked' = (rblLeaked \/ rblPing \in {"running", "closing"})
    /\ rblClosed' = FALSE
    /\ rblInbox' = <<>>
    /\ IF dialOk
         THEN /\ rblConn' = "up"
              /\ rblPing' = "running"
              /\ rblPc' = "wait"
              /\ rblErr' = "none"
         ELSE /\ rblConn' = "lost"
              /\ rblPing' = "off"
              /\ rblPc' = "returned"
              /\ rblErr' = "error"
    /\ UNCHANGED <<createVars, nurseryVars, wsVars, subVars, otherVars, rblBackend,
                   rblStop, rblReceiving, blockHeight, rblTip, rblArrived,
                   rblForwarded, rblRead, rblCalls>>

\* mempool.go 139-144: the ticker fires and the ping cannot be written
MempoolPingFails ==
    /\ rblPing = "running"
    /\ rblConn # "up"
    /\ rblPing' = "exited"
    /\ UNCHANGED <<createVars, nurseryVars, wsVars, subVars, otherVars, rblBackend, rblPc,
                   rblErr, rblStop, rblConn, rblClosed, rblLeaked,
                   rblReceiving, rblInbox, blockHeight, rblTip, rblArrived,
                   rblForwarded, rblRead, rblCalls>>

\* mempool.go 145-146: case <-stop: closed = true
MempoolPingStop ==
    /\ rblPing = "running"
    /\ rblStop = "given"
    /\ rblStop' = "taken"
    /\ rblClosed' = TRUE
    /\ rblPing' = "closing"
    /\ UNCHANGED <<createVars, nurseryVars, wsVars, subVars, otherVars, rblBackend, rblPc,
                   rblErr, rblConn, rblLeaked, rblReceiving, rblInbox,
                   blockHeight, rblTip, rblArrived, rblForwarded, rblRead, rblCalls>>

\* mempool.go 147-150: conn.Close() and the goroutine returns
MempoolPingClose ==
    /\ rblPing = "closing"
    /\ rblConn' = "closed"
    /\ rblPing' = "exited"
    /\ UNCHANGED <<createVars, nurseryVars, wsVars, subVars, otherVars, rblBackend, rblPc,
                   rblErr, rblStop, rblClosed, rblLeaked, rblReceiving,
                   rblInbox, blockHeight, rblTip, rblArrived, rblForwarded, rblRead,
                   rblCalls>>

\* the ping goroutine of an earlier call (its connection is gone): it ends
\* at its next failed ping, or takes the stop signal first
LeakedPing ==
    /\ rblLeaked
    /\ rblLeaked' = FALSE
    /\ \/ UNCHANGED rblStop
       \/ rblStop = "given" /\ rblStop' = "taken"
    /\ UNCHANGED <<createVars, nurseryVars, wsVars, subVars, otherVars, rblBackend, rblPc,
                   rblErr, rblConn, rblPing, rblClosed, rblReceiving,
                   rblInbox, blockHeight, rblTip, rblArrived, rblForwarded, rblRead,
                   rblCalls>>

\* Mutant: a failed read returns nil whether or not the stop was taken.
MempoolReadNilOnFailure ==
    /\ rblBackend = "mempool"
    /\ rblPc = "wait"
    /\ IF rblInbox # <<>>
         THEN /\ rblInbox' = Tail(rblInbox)
              /\ rblRead' = Append(rblRead, Head(rblInbox))
              /\ IF Head(rblInbox) = Unparsable
                   THEN /\ rblPc' = "returned"
                        /\ rblErr' = "error"
                        /\ UNCHANGED blockHeight
                   ELSE IF Head(rblInbox) # NoBlock
                          THEN /\ rblPc' = "send"
                               /\ blockHeight' = Head(rblInbox)
                               /\ UNCHANGED rblErr
                          ELSE UNCHANGED <<rblPc, rblErr, blockHeight>>
         ELSE /\ rblConn # "up"
              /\ rblPc' = "returned"
              /\ rblErr' = "nil"
              /\ UNCHANGED <<rblInbox, blockHeight, rblRead>>
    /\ UNCHANGED <<createVars, nurseryVars, wsVars, subVars, otherVars, rblBackend,
                   rblStop, rblConn, rblPing, rblClosed, rblLeaked,
                   rblReceiving, rblTip, rblArrived, rblForwarded, rblCalls>>

\* mempool.go 155-178, one round of the loop up to the send on channel
MempoolRead ==
    /\ rblBackend = "mempool"
    /\ rblPc = "wait"
    /\ IF rblInbox # <<>>
         THEN /\ rblInbox' = Tail(rblInbox)
              /\ rblRead' = Append(rblRead, Head(rblInbox))
              /\ IF Head(rblInbox) = Unparsable
                   THEN /\ rblPc' = "returned"
                        /\ rblErr' = "error"
                        /\ UNCHANGED blockHeight
                   ELSE IF Head(rblInbox) # NoBlock
                          THEN /\ rblPc' = "send"
                               /\ blockHeight' = Head(rblInbox)
                               /\ UNCHANGED rblErr
                          ELSE UNCHANGED <<rblPc, rblErr, blockHeight>>
         ELSE /\ rblConn # "up"
              /\ rblPc' = "returned"
              /\ rblErr' = IF rblClosed THEN "nil" ELSE "error"
              /\ UNCHANGED <<rblInbox, blockHeight, rblRead>>
    /\ UNCHANGED <<createVars, nurseryVars, wsVars, subVars, otherVars, rblBackend,
                   rblStop, rblConn, rblPing, rblClosed, rblLeaked,
                   rblReceiving, rblTip, rblArrived, rblForwarded, rblCalls>>

\* the caller registers the listener again after the call returned an error
\* and no stop was asked for
RegisterAgain ==
    /\ rblPc = "returned"
    /\ rblErr = "error"
    /\ rblStop = "none"
    /\ rblCalls < MaxCalls
    /\ rblCalls' = rblCalls + 1
    /\ rblPc' = "subscribe"
    /\ rblErr' = "none"
    /\ UNCHANGED <<createVars, nurseryVars, wsVars, subVars, otherVars, rblBackend,
                   rblStop, rblConn, rblPing, rblClosed, rblLeaked,
                   rblReceiving, rblInbox, blockHeight, rblTip, rblArrived,
                   rblForwarded, rblRead>>

\* the steps of one call of RegisterBlockListener and of its ping goroutine
RegisterBlockListener ==
    \/ ElectrumSubscribe
    \/ ElectrumStop
    \/ ElectrumResult
    \/ SendEpoch
    \/ \E dialOk \in BOOLEAN : MempoolDial(dialOk)
    \/ MempoolPingFails
    \/ MempoolPingStop
    \/ MempoolPingClose
    \/ MempoolRead

\* the first call of RegisterBlockListener, on a client that is connected
InitBlock ==
    /\ NurseryOff
    /\ CreateOff
    /\ lightning = TRUE
    /\ WsOff
    /\ OtherOff
    /\ rblBackend \in Backends
    /\ rblPc = "subscribe"
    /\ rblErr = "none"
    /\ rblStop = "none"
    /\ rblConn = "up"
    /\ rblPing = "off"
    /\ rblClosed = FALSE
    /\ rblLeaked = FALSE
    /\ rblReceiving = TRUE
    /\ rblInbox = <<>>
    /\ blockHeight = 0
    /\ rblTip = 0
    /\ rblArrived = <<>>
    /\ rblForwarded = <<>>
    /\ rblRead = <<>>
    /\ rblCalls = 1

NextBlock ==
    \/ NewHeader
    \/ OtherMessage
    \/ BlockConnectionLost
    \/ GiveStop
    \/ ConsumerStops
    \/ RegisterBlockListener
    \/ LeakedPing
    \/ RegisterAgain

SpecBlock == InitBlock /\ [][NextBlock]_vars

----------------------------------------------------------------------------
(* Claims about the block listeners (SpecBlock) *)

\* C13: once the stop signal is given, RegisterBlockListener returns: in
\* whatever state the call is (waiting for a header or message, sending an
\* epoch to a consumer that does not receive, or with its ping goroutine
\* gone), it has returned or it has a step to take.
C13_StopReturns ==
    rblStop # "none" => (rblPc = "returned" \/ ENABLED RegisterBlockListener)

\* C19: when the connection of a subscription is lost and no stop was asked
\* for, the listener does not stay waiting on it: it has a step to take
\* (towards the error that makes the caller subscribe again) until a
\* subscription on a live connection stands.
C19_ResubscribedAfterLoss ==
    (rblConn = "lost" /\ rblStop = "none" /\ rblPc = "wait") =>
        ENABLED RegisterBlockListener

\* the block heights among messages: what is neither NoBlock nor Unparsable
RECURSIVE Heights(_)
Heights(messages) ==
    IF messages = <<>> THEN <<>>
    ELSE IF Head(messages) > 0 THEN <<Head(messages)>> \o Heights(Tail(messages))
    ELSE Heights(Tail(messages))

\* one epoch for every message read that carries a height, in the order
\* read, the last of them possibly still offered on the channel
ForwardedAsRead ==
    rblBackend = "mempool" =>
        IF rblPc = "send"
        THEN Heights(rblRead) = Append(rblForwarded, blockHeight)
        ELSE Heights(rblRead) = rblForwarded

\* the mempool call returns in this step
MempoolReturns == rblBackend = "mempool" /\ rblPc = "wait" /\ rblPc' = "returned"

\* a message that is not valid JSON ends the call with an error, and so
\* does a read that fails while no stop was given
ErrorsReturned ==
    /\ (rblBackend = "mempool" /\ rblRead' # rblRead
          /\ rblRead'[Len(rblRead')] = Unparsable) =>
            (rblPc' = "returned" /\ rblErr' = "error")
    /\ (MempoolReturns /\ rblRead' = rblRead /\ rblStop = "none") =>
            rblErr' = "error"
    /\ (MempoolReturns /\ rblRead' # rblRead) =>
            rblRead'[Len(rblRead')] = Unparsable

\* C29 as stated: the mempool block listener forwards exactly one BlockEpoch
\* for every message read that carries a non-zero height, in arrival order,
\* and nothing for other messages; when it returns nil the stop signal has
\* closed the connection; it returns an error when a read fails without a
\* stop and when a message is not valid JSON.
C29_NilOnlyWhenStopClosed ==
    /\ []ForwardedAsRead
    /\ [](rblBackend = "mempool" /\ rblPc = "returned" /\ rblErr = "nil"
             => rblConn = "closed")
    /\ [][ErrorsReturned]_vars

\* C29 amended: as above, but nil is returned whenever a read fails after
\* the goroutine of the call has taken the stop signal and set closed,
\* whether its Close or something else made the read fail.
C29_NilOnlyAfterStopTaken ==
    /\ []ForwardedAsRead
    /\ [](rblBackend = "mempool" /\ rblPc = "returned" /\ rblErr = "nil"
             => (rblClosed /\ rblStop = "taken"))
    /\ [][ErrorsReturned]_vars

\* a message without a block and a block were read, the block was
\* forwarded, then the stop was taken and the connection broke before it
\* was closed: nil was returned
C29_Witness ==
    /\ rblBackend = "mempool"
    /\ rblPc = "returned"
    /\ rblErr = "nil"
    /\ rblConn = "lost"
    /\ rblRead = <<NoBlock, 1>>
    /\ rblForwarded = <<1>>

----------------------------------------------------------------------------
(* findLockupVout, part_000 141-158 *)

OutputAddresses == 1..MaxOutputAddress

\* an output as txscript.ExtractPkScriptAddrs sees it: an error, or the
\* addresses of its script (none for a script without addresses)
TxOuts ==
    {[decodes |-> FALSE, addresses |-> {}]} \cup
    {[decodes |-> TRUE, addresses |-> a] : a \in SUBSET OutputAddresses}

RECURSIVE TxOutLists(_)
TxOutLists(n) ==
    IF n = 0 THEN {<<>>}
    ELSE TxOutLists(n - 1) \cup
         {Append(l, o) : l \in {x \in TxOutLists(n - 1) : Len(x) = n - 1}, o \in TxOuts}

LockupVoutNotFound == "could not find lockup vout"

\* 142-155: the loop, from index vout on
RECURSIVE ScanOutputs(_, _, _)
ScanOutputs(address, outs, vout) ==
    IF vout >= Len(outs) THEN [vout |-> 0, err |-> LockupVoutNotFound]
    ELSE IF ~outs[vout + 1].decodes THEN ScanOutputs(address, outs, vout + 1)
    ELSE IF address \in outs[vout + 1].addresses THEN [vout |-> vout, err |-> "nil"]
    ELSE ScanOutputs(address, outs, vout + 1)

\* Mutant: the last matching output is returned.
findLockupVoutLast(address, outs) ==
    LET found == {i \in 1..Len(outs) : outs[i].decodes /\ address \in outs[i].addresses}
    IN  IF found = {} THEN [vout |-> 0, err |-> LockupVoutNotFound]
        ELSE [vout |-> (CHOOSE i \in found : \A j \in found : j <= i) - 1,
              err |-> "nil"]

findLockupVout(address, outs) == ScanOutputs(address, outs, 0)

\* the call returns
FindLockupVout ==
    /\ addressToFind # NoAddress
    /\ lockupVout.err = "none"
    /\ lockupVout' = findLockupVout(addressToFind, outputs)
    /\ UNCHANGED <<createVars, nurseryVars, wsVars, subVars, rblVars, laterVars,
                   addressToFind, outputs>>

\* the caller goes on
FindLockupVoutDone ==
    /\ lockupVout.err # "none"
    /\ addressToFind' = NoAddress
    /\ outputs' = <<>>
    /\ lockupVout' = [vout |-> 0, err |-> "none"]
    /\ UNCHANGED <<createVars, nurseryVars, wsVars, subVars, rblVars, laterVars>>

InitVout ==
    /\ NurseryOff
    /\ CreateOff
    /\ lightning = TRUE
    /\ WsOff
    /\ RblOff
    /\ LaterOff
    /\ addressToFind \in OutputAddresses
    /\ outputs \in TxOutLists(MaxOutputs)
    /\ lockupVout = [vout |-> 0, err |-> "none"]

NextVout == FindLockupVout \/ FindLockupVoutDone

SpecVout == InitVout /\ [][NextVout]_vars

\* the indices of the outputs whose script decodes to the address
Matching == {i \in 0..(Len(outputs) - 1) :
                outputs[i + 1].decodes /\ addressToFind \in outputs[i + 1].addresses}

\* C20: findLockupVout returns the lowest index of an output whose script
\* decodes to the lockup address, whatever undecodable outputs stand before
\* it, and it returns an error exactly if no output matches.
C20_FirstMatchingVout ==
    lockupVout.err # "none" =>
        /\ lockupVout.err # "nil" <=> Matching = {}
        /\ lockupVout.err = "nil" =>
              /\ lockupVout.vout \in Matching
              /\ \A i \in Matching : lockupVout.vout <= i

\* an undecodable output first, then two outputs that match: the first of
\* the two was returned
C20_Witness ==
    /\ lockupVout.err = "nil"
    /\ lockupVout.vout = 1
    /\ ~outputs[1].decodes
    /\ Cardinality(Matching) = 2

\* ------------------------------------------------------------------
\* rpcserver: the lock (router.go 932-1027)
\* ------------------------------------------------------------------

\* strings.Contains over strings kept as sequences of words: sub occurs in s
\* as a run of neighbouring words
Contains(s, sub) ==
    \E i \in 0..(Len(s) - Len(sub)) :
        \A j \in 1..Len(sub) : s[i + j] = sub[j]

\* the full method names of the service that the model sends
UnlockMethod == <<"/boltzrpc.Boltz/", "Unlock">>
Methods == {UnlockMethod,
            <<"/boltzrpc.Boltz/", "Get", "Info">>,
            <<"/boltzrpc.Boltz/", "Get", "Swap", "Info", "Stream">>,
            <<"/boltzrpc.Boltz/", "Verify", "Wallet", "Password">>}

\* requestAllowed with every method let through (not the code's)
requestAllowedAlways(fullMethod, isLocked) == "nil"

\* requestAllowed (router.go 992-997)
requestAllowed(fullMethod, isLocked) ==
    IF isLocked /\ ~Contains(fullMethod, <<"Unlock">>) THEN "errLocked" ELSE "nil"

\* UnaryServerInterceptor and StreamServerInterceptor (router.go 999-1027):
\* the handler is called only when requestAllowed returned nil. Unlock
\* itself is followed through its steps by the actions below.
Request(fullMethod, stream) ==
    /\ fullMethod # UnlockMethod
    /\ rpc' = [method |-> fullMethod, stream |-> stream, locked |-> locked,
               err |-> requestAllowed(fullMethod, locked),
               handled |-> requestAllowed(fullMethod, locked) = "nil"]
    /\ UNCHANGED <<notLockVars, locked, uPc, uPassword, uLogins, uInit, uErr,
                   credentials, walletsAdded, serverNursery, nurseryInits,
                   unlockCalls>>

\* Unlock passes the interceptor and unlock reads server.locked (router.go
\* 933, 942-944)
UnlockCheck(u, password) ==
    /\ uPc[u] = "idle"
    /\ unlockCalls < MaxUnlockCalls
    /\ requestAllowed(UnlockMethod, locked) = "nil"
    /\ unlockCalls' = unlockCalls + 1
    /\ uPassword' = [uPassword EXCEPT ![u] = password]
    /\ uLogins' = [uLogins EXCEPT ![u] = 0]
    /\ uInit' = [uInit EXCEPT ![u] = FALSE]
    /\ IF ~locked
         THEN /\ uPc' = [uPc EXCEPT ![u] = "done"]
              /\ uErr' = [uErr EXCEPT ![u] = "already unlocked"]
         ELSE /\ uPc' = [uPc EXCEPT ![u] = "decrypt"]
              /\ uErr' = [uErr EXCEPT ![u] = "none"]
    /\ UNCHANGED <<notLockVars, locked, credentials, walletsAdded, serverNursery,
                   nurseryInits, rpc>>

\* decryptWalletCredentials (router.go 897-912): the query may fail; a
\* credential that is encrypted is decrypted with the password, one that is
\* not is taken as it is
decryptWalletCredentials(creds, password, queryOk) ==
    IF ~queryOk THEN "QueryWalletCredentials"
    ELSE IF \E i \in 1..Len(creds) : creds[i] /\ ~password THEN "wrong password"
    ELSE "nil"

\* unlock: decrypt the credentials (router.go 946-949)
UnlockDecrypt(u, queryOk) ==
    /\ uPc[u] = "decrypt"
    /\ LET err == decryptWalletCredentials(credentials, uPassword[u], queryOk) IN
         IF err # "nil"
           THEN /\ uPc' = [uPc EXCEPT ![u] = "done"]
                /\ uErr' = [uErr EXCEPT ![u] = err]
           ELSE /\ uPc' = [uPc EXCEPT ![u] = "login"]
                /\ uErr' = uErr
    /\ UNCHANGED <<notLockVars, locked, uPassword, uLogins, uInit, credentials,
                   walletsAdded, serverNursery, nurseryInits, rpc, unlockCalls>>

\* unlock: one turn of the login loop (router.go 950-957); a wallet that
\* logged in is added to the on-chain wallets at once
UnlockLogin(u, loginOk) ==
    /\ uPc[u] = "login"
    /\ uLogins[u] < Len(credentials)
    /\ IF loginOk
         THEN /\ walletsAdded' = [walletsAdded EXCEPT ![uLogins[u] + 1] = @ + 1]
              /\ uLogins' = [uLogins EXCEPT ![u] = @ + 1]
              /\ UNCHANGED <<uPc, uErr>>
         ELSE /\ uPc' = [uPc EXCEPT ![u] = "done"]
              /\ uErr' = [uErr EXCEPT ![u] = "could not login to wallet"]
              /\ UNCHANGED <<walletsAdded, uLogins>>
    /\ UNCHANGED <<notLockVars, locked, uPassword, uInit, credentials,
                   serverNursery, nurseryInits, rpc, unlockCalls>>

\* unlock: the loop is over; a failure of LoadConfig is only logged; the
\* nursery is replaced and then initialised (router.go 959-972)
UnlockInit(u, initOk) ==
    /\ uPc[u] = "login"
    /\ uLogins[u] = Len(credentials)
    /\ serverNursery' = serverNursery + 1
    /\ IF initOk
         THEN /\ nurseryInits' = nurseryInits + 1
              /\ uInit' = [uInit EXCEPT ![u] = TRUE]
              /\ uPc' = [uPc EXCEPT ![u] = "unlock"]
              /\ uErr' = uErr
         ELSE /\ uPc' = [uPc EXCEPT ![u] = "done"]
              /\ uErr' = [uErr EXCEPT ![u] = "nursery.Init"]
              /\ UNCHANGED <<nurseryInits, uInit>>
    /\ UNCHANGED <<notLockVars, locked, uPassword, uLogins, credentials,
                   walletsAdded, rpc, unlockCalls>>

\* unlock: server.locked = false, return nil (router.go 973-975)
UnlockFinish(u) ==
    /\ uPc[u] = "unlock"
    /\ locked' = FALSE
    /\ uPc' = [uPc EXCEPT ![u] = "done"]
    /\ uErr' = [uErr EXCEPT ![u] = "nil"]
    /\ UNCHANGED <<notLockVars, uPassword, uLogins, uInit, credentials,
                   walletsAdded, serverNursery, nurseryInits, rpc, unlockCalls>>

\* Unlock returned to its caller (router.go 933)
UnlockReturn(u) ==
    /\ uPc[u] = "done"
    /\ unlockCalls < MaxUnlockCalls
    /\ uPc' = [uPc EXCEPT ![u] = "idle"]
    /\ UNCHANGED <<notLockVars, locked, uPassword, uLogins, uInit, uErr,
                   credentials, walletsAdded, serverNursery, nurseryInits, rpc,
                   unlockCalls>>

\* the stored credentials: up to MaxWallets, each encrypted or not
CredentialLists == UNION {[1..n -> BOOLEAN] : n \in 0..MaxWallets}

InitLock ==
    /\ NurseryOff
    /\ CreateOff
    /\ lightning = TRUE
    /\ WsOff
    /\ RblOff
    /\ VoutOff
    /\ MacOff
    /\ WaitOff
    /\ CredOff
    /\ locked \in BOOLEAN
    /\ credentials \in CredentialLists
    /\ uPc = [u \in UnlockCalls |-> "idle"]
    /\ uPassword = [u \in UnlockCalls |-> FALSE]
    /\ uLogins = [u \in UnlockCalls |-> 0]
    /\ uInit = [u \in UnlockCalls |-> FALSE]
    /\ uErr = [u \in UnlockCalls |-> "none"]
    /\ walletsAdded = [w \in Wallets |-> 0]
    /\ serverNursery = 0
    /\ nurseryInits = 0
    /\ rpc = NoRpc
    /\ unlockCalls = 0

NextLock ==
    \/ \E m \in Methods, stream \in BOOLEAN : Request(m, stream)
    \/ \E u \in UnlockCalls, password \in BOOLEAN : UnlockCheck(u, password)
    \/ \E u \in UnlockCalls, queryOk \in BOOLEAN : UnlockDecrypt(u, queryOk)
    \/ \E u \in UnlockCalls, loginOk \in BOOLEAN : UnlockLogin(u, loginOk)
    \/ \E u \in UnlockCalls, initOk \in BOOLEAN : UnlockInit(u, initOk)
    \/ \E u \in UnlockCalls : UnlockFinish(u)
    \/ \E u \in UnlockCalls : UnlockReturn(u)

SpecLock == InitLock /\ [][NextLock]_vars

\* C25: while the server is locked, a request whose method name does not
\* contain "Unlock" gets the locked error and its handler is not called;
\* the server is unlocked only by an unlock call whose password decrypted
\* every encrypted credential, which logged in every stored wallet and whose
\* nursery.Init succeeded; an unlock call that finds the server unlocked
\* fails; an unlocked server is never locked again.
C25_LockedUntilUnlocked ==
    /\ [][/\ (rpc' # rpc /\ locked /\ ~Contains(rpc'.method, <<"Unlock">>)) =>
                (rpc'.err = "errLocked" /\ ~rpc'.handled)
          /\ (locked /\ ~locked') =>
                \E u \in UnlockCalls :
                    /\ uPc[u] = "unlock" /\ uPc'[u] = "done" /\ uErr'[u] = "nil"
                    /\ \A i \in 1..Len(credentials) : credentials[i] => uPassword[u]
                    /\ uLogins[u] = Len(credentials)
                    /\ uInit[u]
          /\ \A u \in UnlockCalls :
                (~locked /\ uPc[u] = "idle" /\ uPc'[u] # "idle") =>
                    (uPc'[u] = "done" /\ uErr'[u] = "already unlocked")
          /\ ~locked => ~locked']_vars

\* a locked server refused a stream request, and later an unlock call with
\* the right password for two encrypted wallets unlocked it
C25_Witness ==
    /\ ~locked
    /\ Len(credentials) = MaxWallets
    /\ \A i \in 1..Len(credentials) : credentials[i]
    /\ rpc.locked /\ rpc.stream /\ rpc.err = "errLocked" /\ ~rpc.handled
    /\ \E u \in UnlockCalls : uErr[u] = "nil"
    /\ \E u \in UnlockCalls : uErr[u] = "wrong password"

\* C36: a failed unlock leaves the server as it was: while the server is
\* locked and no unlock call is under way, every call so far has failed,
\* and then no wallet has been added to the on-chain wallets and the
\* nursery is the one the server started with.
C36_FailedUnlockChangesNothing ==
    (locked /\ \A u \in UnlockCalls : uPc[u] \in {"idle", "done"}) =>
        /\ \A w \in Wallets : walletsAdded[w] = 0
        /\ serverNursery = 0
        /\ nurseryInits = 0

\* C37: however concurrent Unlock calls on a locked server interleave, at
\* most one of them succeeds, nursery.Init succeeds at most once and each
\* stored wallet is logged in and added at most once.
C37_UnlockedOnce ==
    /\ Cardinality({u \in UnlockCalls : uErr[u] = "nil"}) <= 1
    /\ nurseryInits <= 1
    /\ \A w \in Wallets : walletsAdded[w] <= 1

\* ------------------------------------------------------------------
\* macaroons: the interceptors (interceptors.go 12-66)
\* ------------------------------------------------------------------

\* RPCServerPermissions: the methods that have an entry, with the
\* permissions they require
RPCServerPermissions ==
    [m \in {<<"/boltzrpc.Boltz/", "Get", "Info">>,
            <<"/boltzrpc.Boltz/", "Get", "Swap", "Info", "Stream">>} |->
        IF Len(m) = 3 THEN {"info:read"} ELSE {"swap:read"}]

\* a method without an entry
UnlistedMethod == <<"/boltzrpc.Boltz/", "Other">>

\* hex.DecodeString over strings kept as sequences of characters: the
\* value of a hex digit, or 16 for another character
HexChars == {"0", "a", "F", "g"}
fromHexChar(c) ==
    CASE c = "0" -> 0
      [] c = "a" -> 10
      [] c = "F" -> 15
      [] OTHER -> 16

RECURSIVE hexBytes(_)
hexBytes(str) ==
    IF Len(str) < 2 THEN <<>>
    ELSE <<16 * fromHexChar(str[1]) + fromHexChar(str[2])>>
             \o hexBytes(SubSeq(str, 3, Len(str)))

DecodeString(str) ==
    [err |-> IF \E i \in 1..Len(str) : fromHexChar(str[i]) = 16
               THEN "InvalidByteError"
             ELSE IF Len(str) % 2 = 1 THEN "ErrLength"
             ELSE "nil",
     bytes |-> hexBytes(str)]

HexStrings == UNION {[1..n -> HexChars] : n \in 0..MaxHexLen}
MacaroonValues == UNION {[1..n -> HexStrings] : n \in 0..MaxMacaroons}

\* validateRequest with the macaroon decoded before it is counted (not the
\* code's)
validateRequestDecodeFirst(fullMethod, metadata, macaroon, valid) ==
    IF fullMethod \notin DOMAIN RPCServerPermissions THEN "could not find permissions"
    ELSE IF ~metadata THEN "could not get metadata"
    ELSE IF Len(macaroon) = 0 THEN "expected 1 macaroon"
    ELSE IF DecodeString(macaroon[1]).err # "nil" THEN DecodeString(macaroon[1]).err
    ELSE IF ~valid THEN "ValidateMacaroon"
    ELSE "nil"

\* validateRequest (interceptors.go 42-66); valid is what ValidateMacaroon
\* says of the decoded bytes and the required permissions; without metadata
\* there is no md["macaroon"]
validateRequest(fullMethod, metadata, macaroon, valid) ==
    IF fullMethod \notin DOMAIN RPCServerPermissions THEN "could not find permissions"
    ELSE IF ~metadata THEN "could not get metadata"
    ELSE IF Len(macaroon) # 1 THEN "expected 1 macaroon"
    ELSE IF DecodeString(macaroon[1]).err # "nil" THEN DecodeString(macaroon[1]).err
    ELSE IF ~valid THEN "ValidateMacaroon"
    ELSE "nil"

\* UnaryServerInterceptor and StreamServerInterceptor (interceptors.go
\* 12-40): the handler is called only when validateRequest returned nil
MacaroonRequest(fullMethod, stream, metadata, macaroon, valid) ==
    /\ macResult.err = "none"
    /\ macRequest' = [method |-> fullMethod, stream |-> stream,
                      metadata |-> metadata,
                      macaroon |-> IF metadata THEN macaroon ELSE <<>>,
                      valid |-> valid]
    /\ LET err == validateRequest(fullMethod, metadata,
                                  IF metadata THEN macaroon ELSE <<>>, valid) IN
         macResult' = [err |-> err, handled |-> err = "nil"]
    /\ UNCHANGED notMacVars

\* the interceptor returned to the gRPC server; the next request is looked at
MacaroonReturn ==
    /\ macResult.err # "none"
    /\ macRequest' = NoMacRequest
    /\ macResult' = [err |-> "none", handled |-> FALSE]
    /\ UNCHANGED notMacVars

InitMac ==
    /\ NurseryOff
    /\ CreateOff
    /\ lightning = TRUE
    /\ WsOff
    /\ RblOff
    /\ VoutOff
    /\ LockOff
    /\ MacOff
    /\ WaitOff
    /\ CredOff

NextMac ==
    \/ MacaroonReturn
    \/ \E m \in DOMAIN RPCServerPermissions \cup {UnlistedMethod},
       stream \in BOOLEAN, metadata \in BOOLEAN,
       macaroon \in MacaroonValues, valid \in BOOLEAN :
        MacaroonRequest(m, stream, metadata, macaroon, valid)

SpecMac == InitMac /\ [][NextMac]_vars

\* the characters that are hex digits
IsHex(str) ==
    /\ Len(str) % 2 = 0
    /\ \A i \in 1..Len(str) : str[i] \in {"0", "a", "F"}

\* C26: the macaroon interceptors call the handler exactly if the method
\* has an entry in the permission table, the context carries metadata, the
\* metadata holds exactly one macaroon value, the value is valid hex and
\* ValidateMacaroon accepts it; otherwise the request fails with an error,
\* which is the error of the first of these checks that fails, and the
\* handler is not called.
C26_HandlerIffAuthorised ==
    macResult.err # "none" =>
        LET q == macRequest
            hasEntry == q.method \in DOMAIN RPCServerPermissions
            one == Len(q.macaroon) = 1
            hex == one /\ IsHex(q.macaroon[1])
        IN /\ macResult.handled <=>
                  (hasEntry /\ q.metadata /\ one /\ hex /\ q.valid)
           /\ macResult.handled <=> macResult.err = "nil"
           /\ ~hasEntry => macResult.err = "could not find permissions"
           /\ (hasEntry /\ ~q.metadata) => macResult.err = "could not get metadata"
           /\ (hasEntry /\ q.metadata /\ ~one) => macResult.err = "expected 1 macaroon"
           /\ (hasEntry /\ q.metadata /\ one /\ ~hex) =>
                  macResult.err \in {"InvalidByteError", "ErrLength"}
           /\ (hasEntry /\ q.metadata /\ one /\ hex /\ ~q.valid) =>
                  macResult.err = "ValidateMacaroon"

\* a stream request with two macaroon values, both valid hex that
\* ValidateMacaroon would accept, was refused
C26_Witness ==
    /\ macRequest.stream
    /\ macRequest.method \in DOMAIN RPCServerPermissions
    /\ Len(macRequest.macaroon) = 2
    /\ macRequest.macaroon[1] = <<"a", "F">>
    /\ macRequest.valid
    /\ macResult.err = "expected 1 macaroon"
    /\ ~macResult.handled

\* ------------------------------------------------------------------
\* rpcserver: createReverseSwap waiting for the swap (router.go 613-652)
\* ------------------------------------------------------------------

TerminalStates == {"SUCCESSFUL", "ERROR", "SERVER_ERROR"}

WaitRequests == [returnImmediately : BOOLEAN, acceptZeroConf : BOOLEAN,
                 externalPay : BOOLEAN]

\* the subscriber queue: on overflow the oldest update is dropped
Enqueue(queue, update) ==
    IF Len(queue) < MaxQueue THEN Append(queue, update)
    ELSE Append(Tail(queue), update)

\* the nursery publishes an update of the swap that is not terminal
PublishUpdate ==
    /\ rsTracked
    /\ rsState = "PENDING"
    /\ rsPublished < MaxPublished
    /\ rsPublished' = rsPublished + 1
    /\ wQueue' = IF wChan = "open" THEN Enqueue(wQueue, "PENDING") ELSE wQueue
    /\ UNCHANGED <<notWaitVars, rsState, rsTracked, wRequest, wPc, wChan, wClosed,
                   wResp>>

\* the swap reaches a terminal state: the update is published, the streams
\* of the swap are closed and the nursery stops tracking it
ReachTerminal(state) ==
    /\ rsTracked
    /\ rsState = "PENDING"
    /\ rsState' = state
    /\ rsTracked' = FALSE
    /\ wQueue' = IF wChan = "open" THEN Enqueue(wQueue, state) ELSE wQueue
    /\ wClosed' = (wChan = "open")
    /\ UNCHANGED <<notWaitVars, rsPublished, wRequest, wPc, wChan, wResp>>

\* nursery.SwapUpdates: a stream for a swap the nursery tracks, nil for any
\* other (the caller at router.go 245-246 tests for it)
SwapUpdates(tracked) == IF tracked THEN "open" ELSE "nil"

\* createReverseSwap: the invoice is handed out or paid (router.go 624-633)
AwaitPay(payOk) ==
    /\ wPc = "pay"
    /\ IF wRequest.externalPay \/ payOk
         THEN wPc' = "subscribe" /\ wResp' = wResp
         ELSE wPc' = "returned" /\ wResp' = [wResp EXCEPT !.err = "PayReverseSwap"]
    /\ UNCHANGED <<notWaitVars, rsState, rsTracked, rsPublished, wRequest, wChan,
                   wQueue, wClosed>>

\* createReverseSwap: without waiting the response is returned; else the
\* handler subscribes to the updates of the swap (router.go 635-637, 652)
AwaitSubscribe ==
    /\ wPc = "subscribe"
    /\ IF ~wRequest.returnImmediately /\ wRequest.acceptZeroConf
         THEN /\ wChan' = SwapUpdates(rsTracked)
              /\ wPc' = "range"
              /\ wResp' = wResp
         ELSE /\ wChan' = wChan
              /\ wPc' = "returned"
              /\ wResp' = [wResp EXCEPT !.err = "nil"]
    /\ UNCHANGED <<notWaitVars, rsState, rsTracked, rsPublished, wRequest, wQueue,
                   wClosed>>

\* createReverseSwap: one turn of the loop over the updates; the deferred
\* stop runs when the handler returns (router.go 637-647)
AwaitUpdate ==
    /\ wPc = "range"
    /\ wChan = "open"
    /\ wQueue # <<>>
    /\ wQueue' = Tail(wQueue)
    /\ IF Head(wQueue) \in {"ERROR", "SERVER_ERROR"}
         THEN /\ wPc' = "returned"
              /\ wChan' = "stopped"
              /\ wResp' = [wResp EXCEPT !.err = "reverse swap failed"]
         ELSE /\ wPc' = wPc
              /\ wChan' = wChan
              /\ wResp' = IF Head(wQueue) = "SUCCESSFUL"
                          THEN [wResp EXCEPT !.claimTransactionId = TRUE]
                          ELSE wResp
    /\ UNCHANGED <<notWaitVars, rsState, rsTracked, rsPublished, wRequest, wClosed>>

\* createReverseSwap: the stream is closed and empty, the loop ends and the
\* response is returned (router.go 638, 650-652)
AwaitClosed ==
    /\ wPc = "range"
    /\ wChan = "open"
    /\ wQueue = <<>>
    /\ wClosed
    /\ wPc' = "returned"
    /\ wChan' = "stopped"
    /\ wResp' = [wResp EXCEPT !.err = "nil"]
    /\ UNCHANGED <<notWaitVars, rsState, rsTracked, rsPublished, wRequest, wQueue,
                   wClosed>>

\* the swap is written and registered (router.go 607-617); the handler is
\* about to hand out or pay the invoice
InitWait ==
    /\ NurseryOff
    /\ CreateOff
    /\ lightning = TRUE
    /\ WsOff
    /\ RblOff
    /\ VoutOff
    /\ LockOff
    /\ MacOff
    /\ CredOff
    /\ rsState = "PENDING"
    /\ rsTracked = TRUE
    /\ rsPublished = 0
    /\ wRequest \in WaitRequests
    /\ wPc = "pay"
    /\ wChan = "none"
    /\ wQueue = <<>>
    /\ wClosed = FALSE
    /\ wResp = NoWaitResp

NextWait ==
    \/ PublishUpdate
    \/ \E state \in TerminalStates : ReachTerminal(state)
    \/ \E payOk \in BOOLEAN : AwaitPay(payOk)
    \/ AwaitSubscribe
    \/ AwaitUpdate
    \/ AwaitClosed

SpecWait == InitWait /\ [][NextWait]_vars

\* the call the claim is about
Waiting == ~wRequest.returnImmediately /\ wRequest.acceptZeroConf
               /\ ~wRequest.externalPay

\* C28: a CreateReverseSwap that waits for the swap returns in the end: the
\* response carries the claim transaction id when the swap became
\* SUCCESSFUL and its stream was closed, an error is returned when an update
\* with ERROR or SERVER_ERROR arrives; once the swap is terminal the handler
\* is never left waiting with nothing that could end the wait, also when
\* the swap became terminal before the handler subscribed.
C28_WaitEnds ==
    Waiting =>
        /\ (wPc = "returned" /\ wResp.err = "nil") =>
              (rsState = "SUCCESSFUL" /\ wResp.claimTransactionId)
        /\ (wPc = "returned" /\ wResp.err = "reverse swap failed") =>
              rsState \in {"ERROR", "SERVER_ERROR"}
        /\ (wPc = "range" /\ rsState \in TerminalStates) =>
              ENABLED (AwaitUpdate \/ AwaitClosed)

\* ------------------------------------------------------------------
\* rpcserver: re-encrypting the wallet credentials (router.go 659-700,
\* 914-930, 978-988)
\* ------------------------------------------------------------------

\* passwords a request can carry (0: the empty password), calls in all
MaxPassword == 2
MaxChanges == 2

Passwords == 0..MaxPassword

\* creds.Encrypted() of every committed row
Encrypted(rows) == [i \in 1..Len(rows) |-> rows[i] # 0]

\* creds.Decrypt(password) succeeds on every encrypted row
PasswordFits(password) ==
    \A i \in 1..Len(dbCredentials) :
        dbCredentials[i] # 0 => dbCredentials[i] = password

\* a call that returns before it reaches encryptWalletCredentials
ReturnEarly(err) ==
    /\ cwPc' = "returned"
    /\ cwErr' = err
    /\ UNCHANGED <<dbCredentials, txState, txWrites, cwNew, cwIdx, cwLen>>

\* ChangeWalletPassword (978-988) up to the call of encryptWalletCredentials:
\* the stored credentials are decrypted with the old password
ChangeWalletPassword(old, new, queryOk) ==
    /\ cwPc = "idle"
    /\ cwCalls < MaxChanges
    /\ cwCalls' = cwCalls + 1
    /\ LET err == decryptWalletCredentials(Encrypted(dbCredentials),
                                           PasswordFits(old), queryOk) IN
         IF err # "nil"
           THEN ReturnEarly(err)
           ELSE /\ cwPc' = "begin"
                /\ cwNew' = new
                /\ cwLen' = Len(dbCredentials)
                /\ cwErr' = "none"
                /\ UNCHANGED <<dbCredentials, txState, txWrites, cwIdx>>
    /\ UNCHANGED notCredVars

\* importWallet (659-700) up to the call of encryptWalletCredentials: the
\* new credentials are inserted as they are, outside of any transaction, and
\* all credentials are encrypted again when a password is given
importWallet(password, queryOk, loginOk, insertOk) ==
    /\ cwPc = "idle"
    /\ cwCalls < MaxChanges
    /\ Len(dbCredentials) < MaxWallets
    /\ cwCalls' = cwCalls + 1
    /\ IF decryptWalletCredentials(Encrypted(dbCredentials),
                                   PasswordFits(password), queryOk) # "nil"
         THEN ReturnEarly("wrong password")
       ELSE IF ~loginOk THEN ReturnEarly("could not login")
       ELSE IF ~insertOk THEN ReturnEarly("InsertWalletCredentials")
       ELSE /\ dbCredentials' = Append(dbCredentials, 0)
            /\ cwNew' = password
            /\ cwLen' = Len(dbCredentials) + 1
            /\ cwPc' = IF password # 0 THEN "begin" ELSE "returned"
            /\ cwErr' = IF password # 0 THEN "none" ELSE "nil"
            /\ UNCHANGED <<txState, txWrites, cwIdx>>
    /\ UNCHANGED notCredVars

\* encryptWalletCredentials, 915-918: server.database.BeginTx(). Writers
\* are serialised by the write lock of the storage, so a transaction begins
\* only when none is open.
BeginTx(beginOk) ==
    /\ cwPc = "begin"
    /\ txState # "open"
    /\ IF beginOk
         THEN /\ txState' = "open"
              /\ txWrites' = <<>>
              /\ cwIdx' = 1
              /\ cwPc' = "loop"
              /\ cwErr' = "none"
         ELSE /\ cwPc' = "returned"
              /\ cwErr' = "BeginTx"
              /\ UNCHANGED <<txState, txWrites, cwIdx>>
    /\ UNCHANGED <<notCredVars, dbCredentials, cwNew, cwLen, cwCalls>>

\* the row the transaction has written for credential i
WriteRow(i, key) ==
    [j \in DOMAIN txWrites \cup {i} |-> IF j = i THEN key ELSE txWrites[j]]

\* encryptWalletCredentials, 919-928: one turn of the loop. A failed Encrypt
\* returns the error at once (921-923); a failed update rolls back (925-927).
UpdateWalletCredentials(encryptOk, updateOk) ==
    /\ cwPc = "loop"
    /\ cwIdx <= cwLen
    /\ IF cwNew # 0 /\ ~encryptOk
         THEN /\ cwPc' = "returned"
              /\ cwErr' = "Encrypt"
              /\ UNCHANGED <<txState, txWrites, cwIdx>>
       ELSE IF ~updateOk
         THEN /\ txState' = "rolledBack"
              /\ txWrites' = <<>>
              /\ cwPc' = "returned"
              /\ cwErr' = "UpdateWalletCredentials"
              /\ UNCHANGED cwIdx
         ELSE /\ txWrites' = WriteRow(cwIdx, cwNew)
              /\ cwIdx' = cwIdx + 1
              /\ UNCHANGED <<txState, cwPc, cwErr>>
    /\ UNCHANGED <<notCredVars, dbCredentials, cwNew, cwLen, cwCalls>>

\* encryptWalletCredentials, 929: tx.Commit() after the loop
Commit ==
    /\ cwPc = "loop"
    /\ cwIdx > cwLen
    /\ dbCredentials' = [i \in 1..Len(dbCredentials) |->
                            IF i \in DOMAIN txWrites THEN txWrites[i]
                            ELSE dbCredentials[i]]
    /\ txState' = "committed"
    /\ txWrites' = <<>>
    /\ cwPc' = "returned"
    /\ cwErr' = "nil"
    /\ UNCHANGED <<notCredVars, cwNew, cwIdx, cwLen, cwCalls>>

\* the RPC has answered; the server takes the next call
CredentialsReturn ==
    /\ cwPc = "returned"
    /\ cwPc' = "idle"
    /\ cwErr' = "none"
    /\ cwIdx' = 0
    /\ cwLen' = 0
    /\ cwNew' = 0
    /\ txState' = IF txState = "open" THEN "open" ELSE "none"
    /\ UNCHANGED <<notCredVars, dbCredentials, txWrites, cwCalls>>

\* the stored credentials at startup: none, or all encrypted with one
\* password, or none encrypted
StoredCredentials ==
    {[i \in 1..n |-> key] : n \in 0..MaxWallets, key \in Passwords}

InitCred ==
    /\ NurseryOff
    /\ CreateOff
    /\ lightning = TRUE
    /\ WsOff
    /\ RblOff
    /\ VoutOff
    /\ LockOff
    /\ MacOff
    /\ WaitOff
    /\ dbCredentials \in StoredCredentials
    /\ txState = "none"
    /\ txWrites = <<>>
    /\ cwPc = "idle"
    /\ cwNew = 0
    /\ cwIdx = 0
    /\ cwLen = 0
    /\ cwErr = "none"
    /\ cwCalls = 0

NextCred ==
    \/ \E old, new \in Passwords, queryOk \in BOOLEAN :
          ChangeWalletPassword(old, new, queryOk)
    \/ \E password \in Passwords, queryOk, loginOk, insertOk \in BOOLEAN :
          importWallet(password, queryOk, loginOk, insertOk)
    \/ \E beginOk \in BOOLEAN : BeginTx(beginOk)
    \/ \E encryptOk, updateOk \in BOOLEAN :
          UpdateWalletCredentials(encryptOk, updateOk)
    \/ Commit
    \/ CredentialsReturn

SpecCred == InitCred /\ [][NextCred]_vars

\* C38: re-encrypting the wallet credentials is atomic: whenever
\* encryptWalletCredentials has returned, the transaction it opened is
\* either committed, with every credential it was given updated, or rolled
\* back, with none updated, also when an encryption failed; and a
\* ChangeWalletPassword with a wrong old password opens no transaction.
C38_ReencryptionAtomic ==
    /\ (cwPc = "returned" /\ cwErr \notin {"wrong password", "QueryWalletCredentials"}) =>
          /\ txState # "open"
          /\ txWrites = <<>>
          /\ txState = "committed" =>
                \A i \in 1..cwLen : dbCredentials[i] = cwNew
    /\ (cwPc = "returned" /\ cwErr = "wrong password") =>
          (txState = "none" /\ txWrites = <<>>)

====
